---- MODULE Spec2Model ----
(***************************************************************************)
(* IDE monitor core: the two burst detectors (burst_detector.py), the      *)
(* confidence scorer (confidence.py) and the temporal correlator           *)
(* (correlator.py).                                                        *)
(*                                                                         *)
(* Time is the reading of time.monotonic(), in whole seconds.  Confidence  *)
(* values are held in tenths (0.4 is 4, 1.0 is 10).  An Optional value is  *)
(* None (strings) or Null (integers); an Optional return value is a        *)
(* sequence of length 0 or 1.  Clock reading 0 is the first reading taken: *)
(* time.monotonic() itself is positive, so a stored reading is never falsy  *)
(* and "self._burst_start_time or now" falls back to now for None only.     *)
(***************************************************************************)
EXTENDS Integers, Sequences, FiniteSets, TLC

VARIABLES
    now,            \* time.monotonic()
    \* FileBurstDetector
    recent,         \* self._recent: deque of (time, path)
    fbRet,          \* value returned by the last FileBurstDetector.observe
    fbLog,          \* clock reading of every observe call so far, in call order
    fbFired,        \* positions in fbLog of the calls that returned an event
    \* CopilotBurstDetector
    window,             \* self._window: deque of (time, tokens_prompt, tokens_completion, event_id)
    active_burst_id,    \* self._active_burst_id
    burst_start_time,   \* self._burst_start_time
    burst_token_total,  \* self._burst_token_total
    burst_entry_count,  \* self._burst_entry_count
    cbMinted,           \* number of burst ids minted so far (uuid4 is fresh each time)
    cbRet,              \* the last CopilotBurstDetector call: its kind, clock reading,
                        \* returned events and the observed event as the call left it
    cbOut,              \* kind and burst id of every event returned so far by
                        \* observe and flush, in order
    \* ConfidenceScorer
    recent_fs,          \* self._recent_fs: deque of (time, event_id)
    recent_git,         \* self._recent_git: deque of (time, event_id)
    recent_tasks,       \* self._recent_tasks: deque of (time, task_id)
    scRet,              \* the last ConfidenceScorer call: its kind, the event as the
                        \* call left it and the score it computed
    \* TemporalCorrelator
    tasks,              \* self._tasks: deque of (time, event)
    commits,            \* self._commits
    fs_events,          \* self._fs_events
    copilot_events,     \* self._copilot_events
    coMade,             \* number of events recorded so far (each has a fresh id)
    coRet,              \* the last TemporalCorrelator call: its kind, the event as
                        \* passed, the event as the call left it, the derived events
    \* UnifiedHandler._emit_pipeline
    pipePc,             \* the call the handler makes next ("idle" between events)
    pipeEvent,          \* the event being handled
    pipeDerived,        \* the derived events not yet emitted
    pipeOut,            \* every emitter.emit call so far, in call order
    pipeLog,            \* the calls made for the event being handled, in call order
    \* KanbanCard
    state,                  \* self.state
    state_history,          \* self.state_history: list of dicts
    pending_transitions,    \* self._pending_transitions: list of StateTransition
    updated_at,             \* self.updated_at
    kanRet,                 \* the last transition_to call: its arguments, the state
                            \* it found and the value it returned
    execution_events,       \* the rows of the execution_events table, in insertion order
    \* watcher.start: the observer thread and the main thread
    obsPc,              \* where the observer thread is in UnifiedHandler._route
    obsEvent,           \* the completion the observer thread is handling
    obsQueue,           \* the events the handler has still to pass to _emit_pipeline
    mainPc,             \* where the main thread is in start
    mainEvent,          \* flush_event
    shutOut,            \* the events passed on for emission by either thread, in order
    \* emitter
    retry_queue,        \* _retry_queue: deque(maxlen=1000) of payloads, oldest first
    emMade,             \* number of emit calls so far (each payload is distinct)
    delivered,          \* the payloads a POST answered with r.ok
    jsonl,              \* number of lines appended to the JSONL file
    wkPc,               \* where the retry worker thread is ("none": no live worker)
    wkPayload           \* payload: what the worker read from _retry_queue[0]

fbVars == <<recent, fbRet, fbLog, fbFired>>
cbVars == <<window, active_burst_id, burst_start_time, burst_token_total,
            burst_entry_count, cbMinted, cbRet, cbOut>>
scVars == <<recent_fs, recent_git, recent_tasks, scRet>>
coVars == <<tasks, commits, fs_events, copilot_events, coMade, coRet>>
pipeVars == <<pipePc, pipeEvent, pipeDerived, pipeOut, pipeLog>>
kanVars == <<state, state_history, pending_transitions, updated_at, kanRet,
             execution_events>>
thrVars == <<obsPc, obsEvent, obsQueue, mainPc, mainEvent, shutOut>>
emVars == <<retry_queue, emMade, delivered, jsonl, wkPc, wkPayload>>
\* the state outside the detectors, the scorer, the correlator and the pipeline
restVars == <<kanVars, thrVars, emVars>>
\* the state outside the detectors, the scorer and the correlator
outVars == <<pipeVars, restVars>>
vars == <<now, recent, fbRet, fbLog, fbFired,
          window, active_burst_id, burst_start_time, burst_token_total,
          burst_entry_count, cbMinted, cbRet, cbOut,
          recent_fs, recent_git, recent_tasks, scRet,
          tasks, commits, fs_events, copilot_events, coMade, coRet,
          pipePc, pipeEvent, pipeDerived, pipeOut, pipeLog,
          state, state_history, pending_transitions, updated_at, kanRet,
          execution_events,
          obsPc, obsEvent, obsQueue, mainPc, mainEvent, shutOut,
          retry_queue, emMade, delivered, jsonl, wkPc, wkPayload>>

None == "None"
Null == 0 - 1

\* ---------------------------------------------------------------- bounds
MaxObserve == 7         \* FileBurstDetector.observe calls explored
CBMaxWindow == 5        \* entries the completion window may hold before a call
CBMaxBursts == 2        \* burst ids minted
ScMaxSig == 3           \* entries the three scorer windows hold together
CoLinkMax == 2          \* events recorded in the correlator, commit-linking runs
CoClusterMax == 3       \* events recorded in the correlator, clustering runs
CoCapMax == 2           \* events recorded on top of a window one short of full
PipeMax == 4            \* raw events handed to the pipeline
KanMaxHistory == 4      \* state changes of one card
KanMaxEvents == 3       \* rows inserted into execution_events
ShutMax == 3            \* events passed on for emission before the last completion
EmMaxEmits == 3         \* emit calls explored

\* ------------------------------------------------------- clock readings
FBClock == {0, 1, 5, 6, 7, 12}
CBClock == {0, 120, 121}
ScClock == {0, 31, 331}
CoLinkClock == {0, 181, 481}
CoClusterClock == {0, 180, 181}
CoCapClock == {0, 181}
PipeClock == {0, 181}
KanClock == {0, 1}
ShutClock == {0, 121}
ScEdgeClock == {0, 30, 150, 450}
Paths == {"/a.py", "/b.py"}

\* --------------------------------------------------------------- helpers
\* as Evict, but an entry whose age equals max_age is dropped too
Evict_DropsAgeEqual(q, t, max_age) ==
    LET fresh == {i \in 1..Len(q) : (t - q[i].t) < max_age}
        first == IF fresh = {} THEN Len(q) + 1
                 ELSE CHOOSE i \in fresh : \A j \in fresh : i <= j
    IN  SubSeq(q, first, Len(q))

\* as Evict, but nothing is ever dropped
Evict_NeverDrops(q, t, max_age) == q

\* deque.popleft() repeated while the head is older than max_age: what is left
\* starts at the first entry that is not older than max_age
Evict(q, t, max_age) ==
    LET fresh == {i \in 1..Len(q) : (t - q[i].t) <= max_age}
        first == IF fresh = {} THEN Len(q) + 1
                 ELSE CHOOSE i \in fresh : \A j \in fresh : i <= j
    IN  SubSeq(q, first, Len(q))

\* the clock moves forward to a later reading
Tick(points) == \E t \in points : t > now /\ now' = t

\* ===================================================== FileBurstDetector
FB_window_secs == 5
FB_threshold == 3

FBInit ==
    /\ recent = <<>>
    /\ fbRet = <<>>
    /\ fbLog = <<>>
    /\ fbFired = {}

\* [p for _, p in self._recent]
FBPathsInWindow(q) == [i \in 1..Len(q) |-> q[i].path]

\* as FBObserve, but the queue is kept when the burst fires
FBObserve_KeepsQueue(path) ==
    /\ Len(fbLog) < MaxObserve
    /\ LET appended == Append(recent, [t |-> now, path |-> path])
           kept == Evict(appended, now, FB_window_secs)
           fire == Len(kept) >= FB_threshold
       IN  /\ recent' = kept
           /\ fbRet' = IF fire
                       THEN << [source |-> "filesystem",
                                event_type |-> "filesystem.batch_modified",
                                files_changed |-> FBPathsInWindow(kept),
                                confidence |-> 4] >>
                       ELSE <<>>
           /\ fbLog' = Append(fbLog, now)
           /\ fbFired' = IF fire THEN fbFired \cup {Len(fbLog) + 1} ELSE fbFired
    /\ UNCHANGED <<now, cbVars, scVars, coVars>>

\* FileBurstDetector.observe(path, workspace_root)
FBObserve(path) ==
    /\ Len(fbLog) < MaxObserve
    /\ LET appended == Append(recent, [t |-> now, path |-> path])
           kept == Evict(appended, now, FB_window_secs)
           fire == Len(kept) >= FB_threshold
       IN  /\ recent' = IF fire THEN <<>> ELSE kept
           /\ fbRet' = IF fire
                       THEN << [source |-> "filesystem",
                                event_type |-> "filesystem.batch_modified",
                                files_changed |-> FBPathsInWindow(kept),
                                confidence |-> 4] >>
                       ELSE <<>>
           /\ fbLog' = Append(fbLog, now)
           /\ fbFired' = IF fire THEN fbFired \cup {Len(fbLog) + 1} ELSE fbFired
    /\ UNCHANGED <<now, cbVars, scVars, coVars>>

FBObserveAny ==
    /\ \E p \in Paths : FBObserve(p)
    /\ UNCHANGED outVars

FBTick == Tick(FBClock) /\ UNCHANGED <<fbVars, cbVars, scVars, coVars, outVars>>

\* ================================================== CopilotBurstDetector
CB_window_secs == 120
CB_token_threshold == 500
CB_count_threshold == 5

\* completion events handed to observe: (id, tokens_prompt, tokens_completion);
\* the burst fields of a freshly parsed completion are unset
CBTokenPairs == {<<Null, Null>>, <<Null, 250>>, <<250, 250>>}
CBEventIds == {"c1"}
CBEvents ==
    {[id |-> i, tokens_prompt |-> tk[1], tokens_completion |-> tk[2],
      burst_id |-> Null, burst_token_total |-> Null, burst_entry_count |-> Null] :
        i \in CBEventIds, tk \in CBTokenPairs}
CBNoEvent ==
    [id |-> None, tokens_prompt |-> Null, tokens_completion |-> Null,
     burst_id |-> Null, burst_token_total |-> Null, burst_entry_count |-> Null]

\* as OrZero, but an absent count is passed on as it is
OrZero_KeepsUnset(x) == x

\* x or 0
OrZero(x) == IF x = Null \/ x = 0 THEN 0 ELSE x

\* sum(tp + tc for _, tp, tc, _ in self._window)
RECURSIVE WindowTokens(_)
WindowTokens(w) ==
    IF w = <<>> THEN 0 ELSE Head(w).tp + Head(w).tc + WindowTokens(Tail(w))

\* as CBTrigger, with the strict comparisons of the class docstring
CBTrigger_Strict(window_tokens, window_count) ==
    window_tokens > CB_token_threshold \/ window_count > CB_count_threshold

\* in_burst = (window_tokens >= token_threshold or window_count >= count_threshold)
CBTrigger(window_tokens, window_count) ==
    window_tokens >= CB_token_threshold \/ window_count >= CB_count_threshold

\* as CBDerived, but every burst event carries the same burst id
CBDerived_SameId(event_type, id, tokens, duration, count) ==
    [source |-> "copilot", event_type |-> event_type, burst_id |-> 1,
     burst_token_total |-> tokens, burst_duration_secs |-> duration,
     burst_entry_count |-> count, confidence |-> 4]

\* WorkflowEvent.make(source="copilot", event_type=..., burst_id=..., ...)
CBDerived(event_type, id, tokens, duration, count) ==
    [source |-> "copilot", event_type |-> event_type, burst_id |-> id,
     burst_token_total |-> tokens, burst_duration_secs |-> duration,
     burst_entry_count |-> count, confidence |-> 4]

\* kind and burst id of each of the events a call returned
CBKindAndId(emitted) ==
    [i \in 1..Len(emitted) |->
        [event_type |-> emitted[i].event_type, burst_id |-> emitted[i].burst_id]]

\* is_in_burst
IsInBurst == active_burst_id # Null

CBInit ==
    /\ window = <<>>
    /\ active_burst_id = Null
    /\ burst_start_time = Null
    /\ burst_token_total = 0
    /\ burst_entry_count = 0
    /\ cbMinted = 0
    /\ cbRet = [op |-> "init", at |-> 0, emitted |-> <<>>, event |-> CBNoEvent]
    /\ cbOut = <<>>

\* as CBBranch, but the first test forgets "and self._active_burst_id is None"
CBBranch_StartWheneverTriggered(in_burst, active) ==
    IF in_burst THEN "start"
    ELSE IF ~in_burst /\ active # Null THEN "end"
    ELSE "idle"

\* the if / elif chain of observe: which of the three branches runs, if any
CBBranch(in_burst, active) ==
    IF in_burst /\ active = Null THEN "start"
    ELSE IF in_burst /\ active # Null THEN "continue"
    ELSE IF ~in_burst /\ active # Null THEN "end"
    ELSE "idle"

\* as CBAnnotate, but only the burst id is written on the event
CBAnnotate_IdOnly(event, id, tokens, count) ==
    IF id # Null
    THEN [event EXCEPT !.burst_id = id]
    ELSE event

\* the observed event annotated with the burst context, when a burst is active
CBAnnotate(event, id, tokens, count) ==
    IF id # Null
    THEN [event EXCEPT !.burst_id = id, !.burst_token_total = tokens,
                       !.burst_entry_count = count]
    ELSE event

\* as CBObserve, but the burst-end event reports the totals of the current window
CBObserve_EndReportsWindow(event) ==
    /\ Len(window) < CBMaxWindow
    /\ LET appended == Append(window, [t |-> now, tp |-> OrZero(event.tokens_prompt),
                                       tc |-> OrZero(event.tokens_completion),
                                       id |-> event.id])
           kept == Evict(appended, now, CB_window_secs)
           window_tokens == WindowTokens(kept)
           window_count == Len(kept)
           in_burst == CBTrigger(window_tokens, window_count)
           branch == CBBranch(in_burst, active_burst_id)
       IN  /\ window' = kept
           /\ IF branch = "start"
              THEN \* new burst starts
                   /\ cbMinted < CBMaxBursts
                   /\ cbMinted' = cbMinted + 1
                   /\ active_burst_id' = cbMinted + 1
                   /\ burst_start_time' = now
                   /\ burst_token_total' = window_tokens
                   /\ burst_entry_count' = window_count
                   /\ cbRet' = [op |-> "observe", at |-> now,
                                emitted |-> << CBDerived("copilot.burst_start", cbMinted + 1,
                                                         window_tokens, Null, window_count) >>,
                                event |-> CBAnnotate(event, cbMinted + 1,
                                                     window_tokens, window_count)]
              ELSE IF branch = "continue"
              THEN \* burst continues: update running totals
                   /\ burst_token_total' = window_tokens
                   /\ burst_entry_count' = window_count
                   /\ cbRet' = [op |-> "observe", at |-> now, emitted |-> <<>>,
                                event |-> CBAnnotate(event, active_burst_id,
                                                     window_tokens, window_count)]
                   /\ UNCHANGED <<active_burst_id, burst_start_time, cbMinted>>
              ELSE IF branch = "end"
              THEN \* burst ends
                   /\ cbRet' = [op |-> "observe", at |-> now,
                                emitted |-> << CBDerived("copilot.burst_end", active_burst_id,
                                                         window_tokens,
                                                         now - (IF burst_start_time = Null
                                                                THEN now ELSE burst_start_time),
                                                         window_count) >>,
                                event |-> CBAnnotate(event, Null, 0, 0)]
                   /\ active_burst_id' = Null
                   /\ burst_start_time' = Null
                   /\ burst_token_total' = 0
                   /\ burst_entry_count' = 0
                   /\ UNCHANGED cbMinted
              ELSE /\ cbRet' = [op |-> "observe", at |-> now, emitted |-> <<>>,
                                event |-> CBAnnotate(event, active_burst_id,
                                                     burst_token_total, burst_entry_count)]
                   /\ UNCHANGED <<active_burst_id, burst_start_time, burst_token_total,
                                  burst_entry_count, cbMinted>>
    /\ cbOut' = cbOut \o CBKindAndId(cbRet'.emitted)
    /\ UNCHANGED <<now, fbVars, scVars, coVars>>

\* as CBObserve, but a burst whose earlier entries have all expired is ended and
\* a new burst is started by the same call
CBObserve_EndsAndRestarts(event) ==
    /\ Len(window) < CBMaxWindow
    /\ LET appended == Append(window, [t |-> now, tp |-> OrZero(event.tokens_prompt),
                                       tc |-> OrZero(event.tokens_completion),
                                       id |-> event.id])
           kept == Evict(appended, now, CB_window_secs)
           window_tokens == WindowTokens(kept)
           window_count == Len(kept)
           in_burst == CBTrigger(window_tokens, window_count)
           branch == CBBranch(in_burst, active_burst_id)
       IN  /\ window' = kept
           /\ IF branch = "start"
              THEN \* new burst starts
                   /\ cbMinted < CBMaxBursts
                   /\ cbMinted' = cbMinted + 1
                   /\ active_burst_id' = cbMinted + 1
                   /\ burst_start_time' = now
                   /\ burst_token_total' = window_tokens
                   /\ burst_entry_count' = window_count
                   /\ cbRet' = [op |-> "observe", at |-> now,
                                emitted |-> << CBDerived("copilot.burst_start", cbMinted + 1,
                                                         window_tokens, Null, window_count) >>,
                                event |-> CBAnnotate(event, cbMinted + 1,
                                                     window_tokens, window_count)]
              ELSE IF branch = "continue"
              THEN \* burst continues: update running totals
                   /\ burst_token_total' = window_tokens
                   /\ burst_entry_count' = window_count
                   /\ IF window_count = 1
                      THEN /\ cbMinted' = cbMinted + 1
                           /\ active_burst_id' = cbMinted + 1
                           /\ burst_start_time' = now
                           /\ cbRet' = [op |-> "observe", at |-> now,
                                        emitted |-> << CBDerived("copilot.burst_end",
                                                                 active_burst_id,
                                                                 burst_token_total,
                                                                 now - burst_start_time,
                                                                 burst_entry_count),
                                                       CBDerived("copilot.burst_start",
                                                                 cbMinted + 1, window_tokens,
                                                                 Null, window_count) >>,
                                        event |-> CBAnnotate(event, cbMinted + 1,
                                                             window_tokens, window_count)]
                      ELSE /\ cbRet' = [op |-> "observe", at |-> now, emitted |-> <<>>,
                                        event |-> CBAnnotate(event, active_burst_id,
                                                             window_tokens, window_count)]
                           /\ UNCHANGED <<active_burst_id, burst_start_time, cbMinted>>
              ELSE IF branch = "end"
              THEN \* burst ends
                   /\ cbRet' = [op |-> "observe", at |-> now,
                                emitted |-> << CBDerived("copilot.burst_end", active_burst_id,
                                                         burst_token_total,
                                                         now - (IF burst_start_time = Null
                                                                THEN now ELSE burst_start_time),
                                                         burst_entry_count) >>,
                                event |-> CBAnnotate(event, Null, 0, 0)]
                   /\ active_burst_id' = Null
                   /\ burst_start_time' = Null
                   /\ burst_token_total' = 0
                   /\ burst_entry_count' = 0
                   /\ UNCHANGED cbMinted
              ELSE /\ cbRet' = [op |-> "observe", at |-> now, emitted |-> <<>>,
                                event |-> CBAnnotate(event, active_burst_id,
                                                     burst_token_total, burst_entry_count)]
                   /\ UNCHANGED <<active_burst_id, burst_start_time, burst_token_total,
                                  burst_entry_count, cbMinted>>
    /\ cbOut' = cbOut \o CBKindAndId(cbRet'.emitted)
    /\ UNCHANGED <<now, fbVars, scVars, coVars>>

\* CopilotBurstDetector.observe(event)
CBObserve(event) ==
    /\ Len(window) < CBMaxWindow
    /\ LET appended == Append(window, [t |-> now, tp |-> OrZero(event.tokens_prompt),
                                       tc |-> OrZero(event.tokens_completion),
                                       id |-> event.id])
           kept == Evict(appended, now, CB_window_secs)
           window_tokens == WindowTokens(kept)
           window_count == Len(kept)
           in_burst == CBTrigger(window_tokens, window_count)
           branch == CBBranch(in_burst, active_burst_id)
       IN  /\ window' = kept
           /\ IF branch = "start"
              THEN \* new burst starts
                   /\ cbMinted < CBMaxBursts
                   /\ cbMinted' = cbMinted + 1
                   /\ active_burst_id' = cbMinted + 1
                   /\ burst_start_time' = now
                   /\ burst_token_total' = window_tokens
                   /\ burst_entry_count' = window_count
                   /\ cbRet' = [op |-> "observe", at |-> now,
                                emitted |-> << CBDerived("copilot.burst_start", cbMinted + 1,
                                                         window_tokens, Null, window_count) >>,
                                event |-> CBAnnotate(event, cbMinted + 1,
                                                     window_tokens, window_count)]
              ELSE IF branch = "continue"
              THEN \* burst continues: update running totals
                   /\ burst_token_total' = window_tokens
                   /\ burst_entry_count' = window_count
                   /\ cbRet' = [op |-> "observe", at |-> now, emitted |-> <<>>,
                                event |-> CBAnnotate(event, active_burst_id,
                                                     window_tokens, window_count)]
                   /\ UNCHANGED <<active_burst_id, burst_start_time, cbMinted>>
              ELSE IF branch = "end"
              THEN \* burst ends
                   /\ cbRet' = [op |-> "observe", at |-> now,
                                emitted |-> << CBDerived("copilot.burst_end", active_burst_id,
                                                         burst_token_total,
                                                         now - (IF burst_start_time = Null
                                                                THEN now ELSE burst_start_time),
                                                         burst_entry_count) >>,
                                event |-> CBAnnotate(event, Null, 0, 0)]
                   /\ active_burst_id' = Null
                   /\ burst_start_time' = Null
                   /\ burst_token_total' = 0
                   /\ burst_entry_count' = 0
                   /\ UNCHANGED cbMinted
              ELSE /\ cbRet' = [op |-> "observe", at |-> now, emitted |-> <<>>,
                                event |-> CBAnnotate(event, active_burst_id,
                                                     burst_token_total, burst_entry_count)]
                   /\ UNCHANGED <<active_burst_id, burst_start_time, burst_token_total,
                                  burst_entry_count, cbMinted>>
    /\ cbOut' = cbOut \o CBKindAndId(cbRet'.emitted)
    /\ UNCHANGED <<now, fbVars, scVars, coVars>>

CBObserveAny ==
    /\ \E e \in CBEvents : CBObserve(e)
    /\ UNCHANGED outVars

\* as CBFlush, but the burst stays active after its end event is returned
CBFlush_KeepsBurst ==
    /\ IF active_burst_id = Null
       THEN /\ cbRet' = [op |-> "flush", at |-> now, emitted |-> <<>>, event |-> CBNoEvent]
            /\ UNCHANGED <<active_burst_id, burst_start_time>>
       ELSE /\ cbRet' = [op |-> "flush", at |-> now,
                         emitted |-> << CBDerived("copilot.burst_end", active_burst_id,
                                                  burst_token_total,
                                                  now - (IF burst_start_time = Null
                                                         THEN now ELSE burst_start_time),
                                                  burst_entry_count) >>,
                         event |-> CBNoEvent]
            /\ UNCHANGED <<active_burst_id, burst_start_time>>
    /\ cbOut' = cbOut \o CBKindAndId(cbRet'.emitted)
    /\ UNCHANGED <<now, fbVars, scVars, coVars, window, burst_token_total,
                   burst_entry_count, cbMinted>>

\* as CBFlush, but the window is cleared too
CBFlush_ClearsWindow ==
    /\ IF active_burst_id = Null
       THEN /\ cbRet' = [op |-> "flush", at |-> now, emitted |-> <<>>, event |-> CBNoEvent]
            /\ UNCHANGED <<active_burst_id, burst_start_time>>
       ELSE /\ cbRet' = [op |-> "flush", at |-> now,
                         emitted |-> << CBDerived("copilot.burst_end", active_burst_id,
                                                  burst_token_total,
                                                  now - (IF burst_start_time = Null
                                                         THEN now ELSE burst_start_time),
                                                  burst_entry_count) >>,
                         event |-> CBNoEvent]
            /\ active_burst_id' = Null
            /\ burst_start_time' = Null
    /\ cbOut' = cbOut \o CBKindAndId(cbRet'.emitted)
    /\ window' = <<>>
    /\ UNCHANGED <<now, fbVars, scVars, coVars, burst_token_total,
                   burst_entry_count, cbMinted>>

\* CopilotBurstDetector.flush()
CBFlush ==
    /\ IF active_burst_id = Null
       THEN /\ cbRet' = [op |-> "flush", at |-> now, emitted |-> <<>>, event |-> CBNoEvent]
            /\ UNCHANGED <<active_burst_id, burst_start_time>>
       ELSE /\ cbRet' = [op |-> "flush", at |-> now,
                         emitted |-> << CBDerived("copilot.burst_end", active_burst_id,
                                                  burst_token_total,
                                                  now - (IF burst_start_time = Null
                                                         THEN now ELSE burst_start_time),
                                                  burst_entry_count) >>,
                         event |-> CBNoEvent]
            /\ active_burst_id' = Null
            /\ burst_start_time' = Null
    /\ cbOut' = cbOut \o CBKindAndId(cbRet'.emitted)
    /\ UNCHANGED <<now, fbVars, scVars, coVars, window, burst_token_total,
                   burst_entry_count, cbMinted>>

\* completions whose prompt count, or both counts, are absent from the log entry
CBOptEvents == {e \in CBEvents : e.tokens_prompt = Null}

\* observe called with such completions
CBObserveOpt ==
    /\ \E e \in CBOptEvents : CBObserve(e)
    /\ UNCHANGED outVars

\* flush called on its own
CBFlushNow == CBFlush /\ UNCHANGED outVars

CBTick == Tick(CBClock) /\ UNCHANGED <<fbVars, cbVars, scVars, coVars, outVars>>

\* ====================================================== ConfidenceScorer
FS_PROXIMITY_SECS == 30
GIT_PROXIMITY_SECS == 120
TASK_PROXIMITY_SECS == 300

\* score components, in tenths
BASE == 2
BURST_BONUS == 2
FS_PROXIMITY_BONUS == 2
GIT_PROXIMITY_BONUS == 2
TASK_CONTEXT_BONUS == 2

Min(a, b) == IF a <= b THEN a ELSE b

\* WorkflowEvent fields the scorer reads or writes
ScEvent(id, source, event_type, task_id, burst_id, confidence) ==
    [id |-> id, source |-> source, event_type |-> event_type, task_id |-> task_id,
     burst_id |-> burst_id, confidence |-> confidence]

\* events handed to score and score_and_record: every source, with and
\* without the fields its rule reads, and one whose kind belongs to another source
ScEvents ==
    {ScEvent("e1", "antigravity", "antigravity.task.created", "t1", Null, 0),
     ScEvent("e1", "antigravity", "antigravity.task.completed", None, Null, 0)}
    \cup {ScEvent("e1", "git", "git.commit", tid, Null, 0) : tid \in {None, "t1", "t2"}}
    \cup {ScEvent("e1", "copilot", "copilot.completion", None, Null, 0),
          ScEvent("e1", "copilot", "copilot.completion", None, 1, 0),
          ScEvent("e1", "copilot", "copilot.completion", "t1", 1, 0),
          ScEvent("e1", "copilot", "git.commit", None, Null, 0)}
    \cup {ScEvent("e1", "filesystem", "filesystem.batch_modified", None, Null, 0),
          ScEvent("e1", "filesystem", "filesystem.batch_modified", "t1", 1, 4)}
    \cup {ScEvent("e1", "agent", "workflow.activity_clustered", None, Null, 7)}

\* events handed to record_signal: one for each way of matching a window,
\* and one that matches none
ScSignals ==
    {ScEvent("e1", "filesystem", "filesystem.batch_modified", None, Null, 0),
     ScEvent("e1", "git", "git.commit", None, Null, 0),
     ScEvent("e1", "copilot", "git.commit", None, Null, 0),
     ScEvent("e1", "antigravity", "antigravity.task.created", "t1", Null, 0),
     ScEvent("e1", "copilot", "copilot.completion", None, Null, 0)}

ScNoEvent ==
    [id |-> None, source |-> None, event_type |-> None, task_id |-> None,
     burst_id |-> Null, confidence |-> 0]

ScInit ==
    /\ recent_fs = <<>>
    /\ recent_git = <<>>
    /\ recent_tasks = <<>>
    /\ scRet = [op |-> "init", arg |-> ScNoEvent, event |-> ScNoEvent, score |-> Null]

\* The scoring methods read the clock and evict the windows they consult, so
\* each is a function of (event, windows, clock) giving the score and the
\* windows as the call leaves them.
ScResult(score, fs, git, tks) ==
    [score |-> score, fs |-> fs, git |-> git, tasks |-> tks]

\* as ScoreAntigravity, but a planning kind scores 1.0 while the task window
\* is not empty
ScoreAntigravity_TaskContext(event, fs, git, tks, t) ==
    ScResult(IF event.event_type \in {"antigravity.task.completed",
                                      "antigravity.task.walkthrough_added"} THEN 10
             ELSE IF event.event_type \in {"antigravity.task.created",
                                           "antigravity.task.plan_ready"}
                  THEN (IF tks # <<>> THEN 10 ELSE 9)
             ELSE IF event.event_type = "antigravity.task.failed" THEN 9
             ELSE IF event.event_type = "antigravity.artifact.unknown" THEN 3
             ELSE 8,
             fs, git, tks)

\* ConfidenceScorer._score_antigravity
ScoreAntigravity(event, fs, git, tks, t) ==
    ScResult(IF event.event_type \in {"antigravity.task.completed",
                                      "antigravity.task.walkthrough_added"} THEN 10
             ELSE IF event.event_type \in {"antigravity.task.created",
                                           "antigravity.task.plan_ready"} THEN 9
             ELSE IF event.event_type = "antigravity.task.failed" THEN 9
             ELSE IF event.event_type = "antigravity.artifact.unknown" THEN 3
             ELSE 8,
             fs, git, tks)

\* as ScoreGit, but a task-id match does not return early: the proximity bonus
\* is added on top of the linkage bonus
ScoreGit_BothBonuses(event, fs, git, tks, t) ==
    LET evicted == Evict(tks, t, TASK_PROXIMITY_SECS)
        matched == /\ event.task_id # None
                   /\ \E i \in 1..Len(evicted) : evicted[i].ref = event.task_id
    IN  ScResult(Min(10, 6 + (IF matched THEN TASK_CONTEXT_BONUS ELSE 0)
                           + (IF evicted # <<>> THEN 1 ELSE 0)),
                 fs, git, evicted)

\* ConfidenceScorer._score_git
ScoreGit(event, fs, git, tks, t) ==
    LET base == 6
        looked == IF event.task_id # None
                  THEN Evict(tks, t, TASK_PROXIMITY_SECS) ELSE tks
        matched == /\ event.task_id # None
                   /\ \E i \in 1..Len(looked) : looked[i].ref = event.task_id
        evicted == Evict(looked, t, TASK_PROXIMITY_SECS)
    IN  IF matched
        THEN ScResult(Min(10, base + TASK_CONTEXT_BONUS), fs, git, looked)
        ELSE ScResult(Min(10, base + (IF evicted # <<>> THEN 1 ELSE 0)),
                      fs, git, evicted)

\* as ScoreCopilot, but without the final min(1.0, ...) and with the task
\* proximity bonus added whether or not the event carries a task id
ScoreCopilot_Uncapped(event, fs, git, tks, t) ==
    LET fs1 == Evict(fs, t, FS_PROXIMITY_SECS)
        git1 == Evict(git, t, GIT_PROXIMITY_SECS)
        tasks1 == Evict(tks, t, TASK_PROXIMITY_SECS)
        score == BASE
                 + (IF event.burst_id # Null THEN BURST_BONUS ELSE 0)
                 + (IF fs1 # <<>> THEN FS_PROXIMITY_BONUS ELSE 0)
                 + (IF git1 # <<>> THEN GIT_PROXIMITY_BONUS ELSE 0)
                 + (IF event.task_id # None THEN TASK_CONTEXT_BONUS ELSE 0)
                 + (IF tasks1 # <<>> THEN TASK_CONTEXT_BONUS \div 2 ELSE 0)
    IN  ScResult(score, fs1, git1, tasks1)

\* as ScoreCopilot, but task proximity earns the whole task-context bonus
ScoreCopilot_FullProximityBonus(event, fs, git, tks, t) ==
    LET fs1 == Evict(fs, t, FS_PROXIMITY_SECS)
        git1 == Evict(git, t, GIT_PROXIMITY_SECS)
        tasks1 == IF event.task_id # None
                  THEN tks ELSE Evict(tks, t, TASK_PROXIMITY_SECS)
        score == BASE
                 + (IF event.burst_id # Null THEN BURST_BONUS ELSE 0)
                 + (IF fs1 # <<>> THEN FS_PROXIMITY_BONUS ELSE 0)
                 + (IF git1 # <<>> THEN GIT_PROXIMITY_BONUS ELSE 0)
                 + (IF event.task_id # None THEN TASK_CONTEXT_BONUS
                    ELSE IF tasks1 # <<>> THEN TASK_CONTEXT_BONUS ELSE 0)
    IN  ScResult(Min(10, score), fs1, git1, tasks1)

\* ConfidenceScorer._score_copilot
ScoreCopilot(event, fs, git, tks, t) ==
    LET fs1 == Evict(fs, t, FS_PROXIMITY_SECS)
        git1 == Evict(git, t, GIT_PROXIMITY_SECS)
        tasks1 == IF event.task_id # None
                  THEN tks ELSE Evict(tks, t, TASK_PROXIMITY_SECS)
        score == BASE
                 + (IF event.burst_id # Null THEN BURST_BONUS ELSE 0)
                 + (IF fs1 # <<>> THEN FS_PROXIMITY_BONUS ELSE 0)
                 + (IF git1 # <<>> THEN GIT_PROXIMITY_BONUS ELSE 0)
                 + (IF event.task_id # None THEN TASK_CONTEXT_BONUS
                    ELSE IF tasks1 # <<>> THEN TASK_CONTEXT_BONUS \div 2 ELSE 0)
    IN  ScResult(Min(10, score), fs1, git1, tasks1)

\* as ScoreFilesystem, but the second bonus consults the filesystem window
\* instead of the commit window
ScoreFilesystem_WrongWindow(event, fs, git, tks, t) ==
    LET tasks1 == Evict(tks, t, TASK_PROXIMITY_SECS)
        fs1 == Evict(fs, t, FS_PROXIMITY_SECS)
        base == 4 + (IF tasks1 # <<>> THEN 2 ELSE 0)
                  + (IF fs1 # <<>> THEN 1 ELSE 0)
    IN  ScResult(Min(10, base), fs1, git, tasks1)

\* ConfidenceScorer._score_filesystem
ScoreFilesystem(event, fs, git, tks, t) ==
    LET tasks1 == Evict(tks, t, TASK_PROXIMITY_SECS)
        git1 == Evict(git, t, GIT_PROXIMITY_SECS)
        base == 4 + (IF tasks1 # <<>> THEN 2 ELSE 0)
                  + (IF git1 # <<>> THEN 1 ELSE 0)
    IN  ScResult(Min(10, base), fs, git1, tasks1)

\* as Score, but an event of any other source gets the base score
Score_OtherSourcesBase(event, fs, git, tks, t) ==
    IF event.source = "antigravity" THEN ScoreAntigravity(event, fs, git, tks, t)
    ELSE IF event.source = "git" THEN ScoreGit(event, fs, git, tks, t)
    ELSE IF event.source = "copilot" THEN ScoreCopilot(event, fs, git, tks, t)
    ELSE IF event.source = "filesystem" THEN ScoreFilesystem(event, fs, git, tks, t)
    ELSE ScResult(BASE, fs, git, tks)

\* ConfidenceScorer.score
Score(event, fs, git, tks, t) ==
    IF event.source = "antigravity" THEN ScoreAntigravity(event, fs, git, tks, t)
    ELSE IF event.source = "git" THEN ScoreGit(event, fs, git, tks, t)
    ELSE IF event.source = "copilot" THEN ScoreCopilot(event, fs, git, tks, t)
    ELSE IF event.source = "filesystem" THEN ScoreFilesystem(event, fs, git, tks, t)
    ELSE ScResult(event.confidence, fs, git, tks)

\* as RecordSignal, but the task window stores the event id
RecordSignal_StoresEventId(event, fs, git, tks, t) ==
    IF event.source = "filesystem" \/ event.event_type = "filesystem.batch_modified"
    THEN [fs |-> Append(fs, [t |-> t, ref |-> event.id]), git |-> git, tasks |-> tks]
    ELSE IF event.source = "git" \/ event.event_type = "git.commit"
    THEN [fs |-> fs, git |-> Append(git, [t |-> t, ref |-> event.id]), tasks |-> tks]
    ELSE IF event.source = "antigravity" /\ event.task_id # None
    THEN [fs |-> fs, git |-> git, tasks |-> Append(tks, [t |-> t, ref |-> event.id])]
    ELSE [fs |-> fs, git |-> git, tasks |-> tks]

\* ConfidenceScorer.record_signal: the windows after the call
RecordSignal(event, fs, git, tks, t) ==
    IF event.source = "filesystem" \/ event.event_type = "filesystem.batch_modified"
    THEN [fs |-> Append(fs, [t |-> t, ref |-> event.id]), git |-> git, tasks |-> tks]
    ELSE IF event.source = "git" \/ event.event_type = "git.commit"
    THEN [fs |-> fs, git |-> Append(git, [t |-> t, ref |-> event.id]), tasks |-> tks]
    ELSE IF event.source = "antigravity" /\ event.task_id # None
    THEN [fs |-> fs, git |-> git, tasks |-> Append(tks, [t |-> t, ref |-> event.task_id])]
    ELSE [fs |-> fs, git |-> git, tasks |-> tks]

\* the windows stay within the explored size
ScBounded(w) == Len(w.fs) + Len(w.git) + Len(w.tasks) <= ScMaxSig

\* scorer.score(event)
ScScore(event) ==
    LET s == Score(event, recent_fs, recent_git, recent_tasks, now)
    IN  /\ recent_fs' = s.fs
        /\ recent_git' = s.git
        /\ recent_tasks' = s.tasks
        /\ scRet' = [op |-> "score", arg |-> event, event |-> event, score |-> s.score]
        /\ UNCHANGED <<now, fbVars, cbVars, coVars>>

\* scorer.record_signal(event)
ScRecordSignal(event) ==
    LET r == RecordSignal(event, recent_fs, recent_git, recent_tasks, now)
    IN  /\ ScBounded(r)
        /\ recent_fs' = r.fs
        /\ recent_git' = r.git
        /\ recent_tasks' = r.tasks
        /\ scRet' = [op |-> "record_signal", arg |-> event, event |-> event,
                     score |-> Null]
        /\ UNCHANGED <<now, fbVars, cbVars, coVars>>

\* as ScScoreAndRecord, but the event is recorded before it is scored
ScScoreAndRecord_RecordFirst(event) ==
    LET r == RecordSignal(event, recent_fs, recent_git, recent_tasks, now)
        s == Score(event, r.fs, r.git, r.tasks, now)
    IN  /\ ScBounded(r)
        /\ recent_fs' = s.fs
        /\ recent_git' = s.git
        /\ recent_tasks' = s.tasks
        /\ scRet' = [op |-> "score_and_record", arg |-> event,
                     event |-> [event EXCEPT !.confidence = s.score],
                     score |-> s.score]
        /\ UNCHANGED <<now, fbVars, cbVars, coVars>>

\* scorer.score_and_record(event)
ScScoreAndRecord(event) ==
    LET s == Score(event, recent_fs, recent_git, recent_tasks, now)
        scored == [event EXCEPT !.confidence = s.score]
        r == RecordSignal(scored, s.fs, s.git, s.tasks, now)
    IN  /\ ScBounded(r)
        /\ recent_fs' = r.fs
        /\ recent_git' = r.git
        /\ recent_tasks' = r.tasks
        /\ scRet' = [op |-> "score_and_record", arg |-> event, event |-> scored,
                     score |-> s.score]
        /\ UNCHANGED <<now, fbVars, cbVars, coVars>>

ScScoreAny ==
    /\ \E e \in ScEvents : ScScore(e)
    /\ UNCHANGED outVars
ScRecordSignalAny ==
    /\ \E e \in ScSignals : ScRecordSignal(e)
    /\ UNCHANGED outVars
ScScoreAndRecordAny ==
    /\ \E e \in ScEvents : ScScoreAndRecord(e)
    /\ UNCHANGED outVars

ScTick == Tick(ScClock) /\ UNCHANGED <<fbVars, cbVars, scVars, coVars, outVars>>

\* the kinds of planning-system events: one for each score of
\* _score_antigravity and one that takes its default
ScAgKinds ==
    {"antigravity.task.completed", "antigravity.task.walkthrough_added",
     "antigravity.task.created", "antigravity.task.plan_ready",
     "antigravity.task.failed", "antigravity.artifact.unknown",
     "antigravity.task.updated"}

\* planning-system events of every kind, without task id and one with, and
\* the derived events of source "agent" with the confidence set on them
ScKindEvents ==
    {ScEvent("e1", "antigravity", k, None, Null, 0) : k \in ScAgKinds}
    \cup {ScEvent("e1", "antigravity", "antigravity.task.created", "t1", Null, 0)}
    \cup {ScEvent("e1", "agent", "workflow.task_inferred", None, Null, 0),
          ScEvent("e1", "agent", "workflow.activity_clustered", None, Null, 7),
          ScEvent("e1", "agent", "workflow.conflict_detected", "t1", Null, 10)}

\* events handed to record_signal alone: a signal for each window, a
\* planning-system event without task id, a derived event and an event that
\* only its kind sends to the commit window
ScKindSignals ==
    {ScEvent("e1", "filesystem", "filesystem.batch_modified", None, Null, 4),
     ScEvent("e2", "git", "git.commit", None, Null, 6),
     ScEvent("e3", "antigravity", "antigravity.task.created", "t1", Null, 9),
     ScEvent("e4", "antigravity", "antigravity.artifact.unknown", None, Null, 3),
     ScEvent("e5", "agent", "workflow.activity_clustered", None, Null, 7),
     ScEvent("e6", "copilot", "git.commit", None, Null, 2)}

\* the scorer fed planning-system and derived events
ScKindScore ==
    /\ \E e \in ScKindEvents : ScScore(e)
    /\ UNCHANGED outVars
ScKindRecordSignal ==
    /\ \E e \in ScKindSignals : ScRecordSignal(e)
    /\ UNCHANGED outVars
ScKindScoreAndRecord ==
    /\ \E e \in ScKindEvents : ScScoreAndRecord(e)
    /\ UNCHANGED outVars

\* events scored at the horizons: a completion that earns only proximity
\* bonuses, a filesystem batch, commits with and without task id, and the
\* planning-task event that fills the task window
ScEdgeEvents ==
    {ScEvent("e1", "copilot", "copilot.completion", None, Null, 0),
     ScEvent("e1", "filesystem", "filesystem.batch_modified", None, Null, 0),
     ScEvent("e1", "git", "git.commit", None, Null, 0),
     ScEvent("e1", "git", "git.commit", "t1", Null, 0),
     ScEvent("e1", "antigravity", "antigravity.task.created", "t1", Null, 0)}

\* the scorer called at clock readings that put signals exactly at, and
\* beyond, each horizon
ScEdgeScore ==
    /\ \E e \in ScEdgeEvents : ScScore(e)
    /\ UNCHANGED outVars
ScEdgeScoreAndRecord ==
    /\ \E e \in ScEdgeEvents : ScScoreAndRecord(e)
    /\ UNCHANGED outVars

ScEdgeTick == Tick(ScEdgeClock) /\ UNCHANGED <<fbVars, cbVars, scVars, coVars, outVars>>

\* ==================================================== TemporalCorrelator
TASK_COMMIT_WINDOW == 300
CLUSTER_WINDOW == 180
MAX_EVENTS == 200

\* WorkflowEvent fields the correlator reads or writes; files_changed is the
\* set of paths of the file list (empty for None and for an empty list)
CoEvent(id, source, event_type, task_id, task_title, files_changed) ==
    [id |-> id, source |-> source, event_type |-> event_type, task_id |-> task_id,
     task_title |-> task_title, files_changed |-> files_changed,
     correlation_type |-> None, correlated_events |-> <<>>]

\* derived events: WorkflowEvent.make(source=..., event_type=..., ...)
CoDerived(source, event_type, task_id, task_title, ctype, correlated, confidence) ==
    [source |-> source, event_type |-> event_type, task_id |-> task_id,
     task_title |-> task_title, correlation_type |-> ctype,
     correlated_events |-> correlated, confidence |-> confidence]

CoNoEvent == CoEvent(0, None, None, None, None, {})

\* planning-task events, commits and other events handed to the correlator
\* (id 0 until the event is made)
CoTaskEvents ==
    {CoEvent(0, "antigravity", "antigravity.task.completed", "t1", "Fix bug", {"a"}),
     CoEvent(0, "antigravity", "antigravity.task.created", "t2", "Add feature", {"b"}),
     CoEvent(0, "antigravity", "antigravity.task.created", "t1", None, {})}
CoCommitEvents ==
    {CoEvent(0, "git", "git.commit", "t1", None, {"b"}),
     CoEvent(0, "git", "git.commit", None, None, {"b"}),
     CoEvent(0, "git", "git.commit", None, None, {}),
     CoEvent(0, "git", "git.commit", "t3", None, {"c"})}
\* one event for each window
CoSourceEvents ==
    {CoEvent(0, "antigravity", "antigravity.task.created", "t1", "Fix bug", {}),
     CoEvent(0, "git", "git.commit", None, None, {}),
     CoEvent(0, "filesystem", "filesystem.batch_modified", None, None, {"a"}),
     CoEvent(0, "copilot", "copilot.completion", None, None, {})}

\* events that no window takes: a planning event without task id and a
\* derived event
CoUnheldEvents ==
    {CoEvent(0, "antigravity", "antigravity.artifact.unknown", None, None, {}),
     CoEvent(0, "agent", "workflow.activity_clustered", None, None, {})}

CoInit ==
    /\ tasks = <<>>
    /\ commits = <<>>
    /\ fs_events = <<>>
    /\ copilot_events = <<>>
    /\ coMade = 0
    /\ coRet = [op |-> "init", arg |-> CoNoEvent, event |-> CoNoEvent, derived |-> <<>>]

\* as CoPush, but a full window turns the new entry away
CoPush_DropsNewest(w, entry) ==
    LET appended == Append(w, entry)
    IN  IF Len(appended) > MAX_EVENTS THEN w ELSE appended

\* window.append(entry); if len(window) > MAX_EVENTS: window.popleft()
CoPush(w, entry) ==
    LET appended == Append(w, entry)
    IN  IF Len(appended) > MAX_EVENTS THEN Tail(appended) ELSE appended

\* TemporalCorrelator.record(event)
CoRecord(event) ==
    /\ LET ev == [event EXCEPT !.id = coMade + 1]
           entry == [t |-> now, ev |-> ev]
       IN  /\ coMade' = coMade + 1
           /\ coRet' = [op |-> "record", arg |-> ev, event |-> ev, derived |-> <<>>]
           /\ IF ev.source = "antigravity" /\ ev.task_id # None
              THEN /\ tasks' = CoPush(tasks, entry)
                   /\ UNCHANGED <<commits, fs_events, copilot_events>>
              ELSE IF ev.source = "git"
              THEN /\ commits' = CoPush(commits, entry)
                   /\ UNCHANGED <<tasks, fs_events, copilot_events>>
              ELSE IF ev.source = "filesystem"
              THEN /\ fs_events' = CoPush(fs_events, entry)
                   /\ UNCHANGED <<tasks, commits, copilot_events>>
              ELSE IF ev.source = "copilot"
              THEN /\ copilot_events' = CoPush(copilot_events, entry)
                   /\ UNCHANGED <<tasks, commits, fs_events>>
              ELSE UNCHANGED <<tasks, commits, fs_events, copilot_events>>
    /\ UNCHANGED <<now, fbVars, cbVars, scVars>>

\* the largest of a set of positions, 0 for the empty set
LastOf(S) == IF S = {} THEN 0 ELSE CHOOSE i \in S : \A j \in S : j <= i

\* for _, task_ev in reversed(self._tasks): if task_ev.task_id == commit.task_id
\* (the position of the first hit scanning from position i down, 0 for none)
ScanTaskId(w, i, task_id) ==
    LastOf({j \in 1..i : w[j].ev.task_id = task_id})

\* for _, task_ev in reversed(self._tasks): if task_ev.files_changed and
\* commit_files & task_files
ScanFiles(w, i, commit_files) ==
    LastOf({j \in 1..i : /\ w[j].ev.files_changed # {}
                         /\ (commit_files \cap w[j].ev.files_changed) # {}})

\* as ChooseTask, but file overlap is tried before the task-id match
ChooseTask_FilesFirst(commit, w) ==
    LET byFiles == IF commit.files_changed # {}
                   THEN ScanFiles(w, Len(w), commit.files_changed) ELSE 0
        byId == IF byFiles = 0 /\ commit.task_id # None
                THEN ScanTaskId(w, Len(w), commit.task_id) ELSE 0
    IN  IF byFiles # 0 THEN [at |-> byFiles, type |-> "file_overlap"]
        ELSE IF byId # 0 THEN [at |-> byId, type |-> "task_match"]
        ELSE [at |-> Len(w), type |-> "time_proximity"]

\* the three strategies of _correlate_commit over a non-empty task window:
\* the position of the chosen task and the correlation type
ChooseTask(commit, w) ==
    LET byId == IF commit.task_id # None
                THEN ScanTaskId(w, Len(w), commit.task_id) ELSE 0
        byFiles == IF byId = 0 /\ commit.files_changed # {}
                   THEN ScanFiles(w, Len(w), commit.files_changed) ELSE 0
    IN  IF byId # 0 THEN [at |-> byId, type |-> "task_match"]
        ELSE IF byFiles # 0 THEN [at |-> byFiles, type |-> "file_overlap"]
        ELSE [at |-> Len(w), type |-> "time_proximity"]

\* TemporalCorrelator._link_confidence
LinkConfidence(correlation_type) ==
    IF correlation_type = "task_match" THEN 10
    ELSE IF correlation_type = "file_overlap" THEN 8
    ELSE IF correlation_type = "time_proximity" THEN 5
    ELSE 3

\* as CorrelateCommit, but a commit that came with a task id keeps it
CorrelateCommit_KeepsCommitTaskId(commit, w, t) ==
    LET evicted == Evict(w, t, TASK_COMMIT_WINDOW)
    IN  IF evicted = <<>>
        THEN [tasks |-> evicted, commit |-> commit, linked |-> <<>>]
        ELSE LET best == ChooseTask(commit, evicted)
                 best_task == evicted[best.at].ev
                 kept_id == IF commit.task_id # None
                            THEN commit.task_id ELSE best_task.task_id
             IN  [tasks |-> evicted,
                  commit |-> [commit EXCEPT !.task_id = kept_id,
                                            !.task_title = best_task.task_title,
                                            !.correlation_type = best.type,
                                            !.correlated_events = <<best_task.id>>],
                  linked |-> << CoDerived("git", "git.commit_linked_to_task",
                                          best_task.task_id, best_task.task_title,
                                          best.type, <<commit.id, best_task.id>>,
                                          LinkConfidence(best.type)) >>]

\* as CorrelateCommit, but the link confidence is written on the commit too
CorrelateCommit_SetsConfidence(commit, w, t) ==
    LET evicted == Evict(w, t, TASK_COMMIT_WINDOW)
    IN  IF evicted = <<>>
        THEN [tasks |-> evicted, commit |-> commit, linked |-> <<>>]
        ELSE LET best == ChooseTask(commit, evicted)
                 best_task == evicted[best.at].ev
             IN  [tasks |-> evicted,
                  commit |-> [commit EXCEPT !.task_id = best_task.task_id,
                                            !.task_title = best_task.task_title,
                                            !.correlation_type = best.type,
                                            !.correlated_events = <<best_task.id>>,
                                            !.confidence = LinkConfidence(best.type)],
                  linked |-> << CoDerived("git", "git.commit_linked_to_task",
                                          best_task.task_id, best_task.task_title,
                                          best.type, <<commit.id, best_task.id>>,
                                          LinkConfidence(best.type)) >>]

\* as CorrelateCommit, but the task window is not evicted first
CorrelateCommit_NoEviction(commit, w, t) ==
    IF w = <<>>
    THEN [tasks |-> w, commit |-> commit, linked |-> <<>>]
    ELSE LET best == ChooseTask(commit, w)
             best_task == w[best.at].ev
         IN  [tasks |-> w,
              commit |-> [commit EXCEPT !.task_id = best_task.task_id,
                                        !.task_title = best_task.task_title,
                                        !.correlation_type = best.type,
                                        !.correlated_events = <<best_task.id>>],
              linked |-> << CoDerived("git", "git.commit_linked_to_task",
                                      best_task.task_id, best_task.task_title,
                                      best.type, <<commit.id, best_task.id>>,
                                      LinkConfidence(best.type)) >>]

\* TemporalCorrelator._correlate_commit: the task window and the commit as the
\* call leaves them, and the link event if there is one
CorrelateCommit(commit, w, t) ==
    LET evicted == Evict(w, t, TASK_COMMIT_WINDOW)
    IN  IF evicted = <<>>
        THEN [tasks |-> evicted, commit |-> commit, linked |-> <<>>]
        ELSE LET best == ChooseTask(commit, evicted)
                 best_task == evicted[best.at].ev
             IN  [tasks |-> evicted,
                  commit |-> [commit EXCEPT !.task_id = best_task.task_id,
                                            !.task_title = best_task.task_title,
                                            !.correlation_type = best.type,
                                            !.correlated_events = <<best_task.id>>],
                  linked |-> << CoDerived("git", "git.commit_linked_to_task",
                                          best_task.task_id, best_task.task_title,
                                          best.type, <<commit.id, best_task.id>>,
                                          LinkConfidence(best.type)) >>]

\* the events of a window, in order
CoEventsOf(w) == [i \in 1..Len(w) |-> w[i].ev]

\* event_ids[:50]
CoFirst50(ids) == SubSeq(ids, 1, Min(50, Len(ids)))

\* as CoClusterFires, with the ">= 2 distinct sources" of the docstring
CoClusterFires_TwoSources(sources, trigger) ==
    Cardinality(sources) >= 2 /\ trigger.source \in sources

\* the two tests of _check_cluster: at least 3 sources, the trigger's among them
CoClusterFires(sources, trigger) ==
    Cardinality(sources) >= 3 /\ trigger.source \in sources

\* TemporalCorrelator._check_cluster: the four windows as the call leaves them
\* and the cluster event if there is one
CheckCluster(trigger, w_tasks, w_commits, w_fs, w_copilot, t) ==
    LET t1 == Evict(w_tasks, t, CLUSTER_WINDOW)
        c1 == Evict(w_commits, t, CLUSTER_WINDOW)
        f1 == Evict(w_fs, t, CLUSTER_WINDOW)
        p1 == Evict(w_copilot, t, CLUSTER_WINDOW)
        all == CoEventsOf(t1) \o CoEventsOf(c1) \o CoEventsOf(f1) \o CoEventsOf(p1)
        sources == {all[i].source : i \in 1..Len(all)}
        event_ids == [i \in 1..Len(all) |-> all[i].id]
    IN  [tasks |-> t1, commits |-> c1, fs_events |-> f1, copilot_events |-> p1,
         cluster |-> IF CoClusterFires(sources, trigger)
                     THEN << CoDerived("agent", "workflow.activity_clustered", None, None,
                                       "temporal_cluster", CoFirst50(event_ids), 7) >>
                     ELSE <<>>]

\* the trigger is one object with the entry of the same id in a window: what
\* correlate writes on the trigger shows in that entry
CoAlias(w, event) ==
    [i \in 1..Len(w) |->
        IF w[i].ev.id = event.id /\ event.id # 0
        THEN [w[i] EXCEPT !.ev = event] ELSE w[i]]

\* TemporalCorrelator.correlate(event)
CoCorrelate(event) ==
    LET link == IF event.event_type = "git.commit"
                THEN CorrelateCommit(event, tasks, now)
                ELSE [tasks |-> tasks, commit |-> event, linked |-> <<>>]
        left == link.commit
        cl == CheckCluster(left, CoAlias(link.tasks, left), CoAlias(commits, left),
                           CoAlias(fs_events, left), CoAlias(copilot_events, left), now)
    IN  /\ tasks' = cl.tasks
        /\ commits' = cl.commits
        /\ fs_events' = cl.fs_events
        /\ copilot_events' = cl.copilot_events
        /\ coRet' = [op |-> "correlate", arg |-> event, event |-> left,
                     derived |-> link.linked \o cl.cluster]
        /\ UNCHANGED <<now, coMade, fbVars, cbVars, scVars>>

\* the events held in the four windows
CoHeld ==
    {tasks[i].ev : i \in 1..Len(tasks)} \cup {commits[i].ev : i \in 1..Len(commits)}
    \cup {fs_events[i].ev : i \in 1..Len(fs_events)}
    \cup {copilot_events[i].ev : i \in 1..Len(copilot_events)}

\* the commits that are recorded: those without task id and without files
CoBareCommits == {c \in CoCommitEvents : c.task_id = None /\ c.files_changed = {}}

\* commit linking: planning-task events and bare commits are recorded;
\* correlate is called with a commit recorded before or with one never recorded
CoLinkRecord ==
    /\ coMade < CoLinkMax
    /\ \E e \in CoTaskEvents \cup CoBareCommits : CoRecord(e)
    /\ UNCHANGED outVars

CoLinkCorrelate ==
    /\ \E e \in {h \in CoHeld : h.event_type = "git.commit"} \cup CoCommitEvents :
          CoCorrelate(e)
    /\ UNCHANGED outVars

CoLinkTick == Tick(CoLinkClock) /\ UNCHANGED <<fbVars, cbVars, scVars, coVars, outVars>>

\* linking without file lists: a planning-task event with a file list and one
\* without are recorded; correlate is called with commits that carry no task
\* id, with and without a file list
CoOptTasks == {e \in CoTaskEvents : e.task_title # "Fix bug"}
CoOptCommits == {c \in CoCommitEvents : c.task_id = None}

CoOptRecord ==
    /\ coMade < CoLinkMax
    /\ \E e \in CoOptTasks : CoRecord(e)
    /\ UNCHANGED outVars

CoOptCorrelate ==
    /\ \E e \in CoOptCommits : CoCorrelate(e)
    /\ UNCHANGED outVars

\* clustering: events of every windowed source are recorded; correlate is
\* called as the pipeline calls it, with the event recorded last, or with an
\* event that no window takes
CoClusterRecord ==
    /\ coMade < CoClusterMax
    /\ \E e \in CoSourceEvents : CoRecord(e)
    /\ UNCHANGED outVars

CoClusterCorrelate ==
    /\ \E e \in {h \in CoHeld : h.id = coMade} \cup CoUnheldEvents : CoCorrelate(e)
    /\ UNCHANGED outVars

CoClusterTick == Tick(CoClusterClock) /\ UNCHANGED <<fbVars, cbVars, scVars, coVars, outVars>>

\* ======================================== UnifiedHandler._emit_pipeline
\* WorkflowEvent.make: external_ref = f"{workspace_id}:{task_id}" if task_id,
\* else None (the pair for the joined string, the empty sequence for None)
ExternalRef(workspace_id, task_id) ==
    IF task_id # None THEN <<workspace_id, task_id>> ELSE <<>>

\* WorkflowEvent fields the scorer and the correlator read or write, as
\* WorkflowEvent.make(source, event_type, workspace_root=..., ...) sets them
PipeEvent(source, event_type, task_id, task_title, files_changed, burst_id) ==
    [id |-> 0, source |-> source, event_type |-> event_type, task_id |-> task_id,
     task_title |-> task_title, files_changed |-> files_changed,
     burst_id |-> burst_id, confidence |-> 0,
     correlation_type |-> None, correlated_events |-> <<>>,
     workspace_id |-> "w1", external_ref |-> ExternalRef("w1", task_id)]

PipeNoEvent == PipeEvent(None, None, None, None, {}, Null)

\* raw events handed to the pipeline: one of each source, the commit as the
\* git parser makes it (task_id = sha) and as it is when git gives no sha
PipeEvents ==
    {PipeEvent("antigravity", "antigravity.task.completed", "t1", "Fix bug", {"a"}, Null),
     PipeEvent("git", "git.commit", None, None, {"a"}, Null),
     PipeEvent("git", "git.commit", "sha1", None, {"c"}, Null),
     PipeEvent("filesystem", "filesystem.batch_modified", None, None, {"b"}, Null),
     PipeEvent("copilot", "copilot.completion", None, None, {}, 1)}

\* a derived event as WorkflowEvent.make returns it: with an id of its own,
\* the workspace id of the working directory, and the fields it was not given
\* at their defaults
PipeMade(d, id) ==
    [id |-> id, source |-> d.source, event_type |-> d.event_type,
     task_id |-> d.task_id, task_title |-> d.task_title, files_changed |-> {},
     burst_id |-> Null, confidence |-> d.confidence,
     correlation_type |-> d.correlation_type,
     correlated_events |-> d.correlated_events,
     workspace_id |-> "cwd", external_ref |-> ExternalRef("cwd", d.task_id)]

\* the derived events of a correlate call for event number n, each with its id
PipeMadeAll(derived, n) == [k \in 1..Len(derived) |-> PipeMade(derived[k], 10 * n + k)]

PipeInit ==
    /\ pipePc = "idle"
    /\ pipeEvent = PipeNoEvent
    /\ pipeDerived = <<>>
    /\ pipeOut = <<>>
    /\ pipeLog = <<>>

\* as PipeAfter, but the primary event is emitted before correlate is called
PipeAfter_EmitBeforeCorrelate(pc, pending) ==
    CASE pc = "idle" -> "record"
      [] pc = "record" -> "emit"
      [] pc = "emit" -> "correlate"
      [] pc = "correlate" -> IF pending = <<>> THEN "idle" ELSE "score_derived"
      [] pc = "score_derived" -> "emit_derived"
      [] pc = "emit_derived" -> IF pending = <<>> THEN "idle" ELSE "score_derived"

\* the statement order of _emit_pipeline: the call that follows call pc when
\* pending are the derived events still to emit
PipeAfter(pc, pending) ==
    CASE pc = "idle" -> "record"
      [] pc = "record" -> "correlate"
      [] pc = "correlate" -> "emit"
      [] pc = "emit" -> IF pending = <<>> THEN "idle" ELSE "score_derived"
      [] pc = "score_derived" -> "emit_derived"
      [] pc = "emit_derived" -> IF pending = <<>> THEN "idle" ELSE "score_derived"

\* self.scorer.score_and_record(event), as the pipeline calls it
PipeScorer(event) ==
    LET s == Score(event, recent_fs, recent_git, recent_tasks, now)
        scored == [event EXCEPT !.confidence = s.score]
        r == RecordSignal(scored, s.fs, s.git, s.tasks, now)
    IN  /\ recent_fs' = r.fs
        /\ recent_git' = r.git
        /\ recent_tasks' = r.tasks
        /\ scRet' = [op |-> "score_and_record", arg |-> event, event |-> scored,
                     score |-> s.score]

\* _emit_pipeline(event), step 1: self.scorer.score_and_record(event)
PipeScore(event) ==
    /\ pipePc = "idle"
    /\ coMade < PipeMax
    /\ PipeScorer([event EXCEPT !.id = coMade + 1])
    /\ pipeEvent' = scRet'.event
    /\ pipeDerived' = <<>>
    /\ pipePc' = PipeAfter("idle", <<>>)
    /\ pipeLog' = <<"score", "record_signal">>
    /\ UNCHANGED <<now, fbVars, cbVars, coVars, pipeOut, restVars>>

\* step 2: self.correlator.record(event)
PipeRecord ==
    /\ pipePc = "record"
    /\ CoRecord(pipeEvent)
    /\ pipePc' = PipeAfter("record", <<>>)
    /\ pipeLog' = Append(pipeLog, "record")
    /\ UNCHANGED <<pipeEvent, pipeDerived, pipeOut, restVars>>

\* step 3: derived = self.correlator.correlate(event)
PipeCorrelate ==
    /\ pipePc = "correlate"
    /\ CoCorrelate(pipeEvent)
    /\ pipeEvent' = coRet'.event
    /\ pipeDerived' = PipeMadeAll(coRet'.derived, pipeEvent.id)
    /\ pipePc' = PipeAfter("correlate", pipeDerived')
    /\ pipeLog' = Append(pipeLog, "correlate")
    /\ UNCHANGED <<pipeOut, restVars>>

\* step 4: emitter.emit(event)
PipeEmit ==
    /\ pipePc = "emit"
    /\ pipeOut' = Append(pipeOut, [of |-> pipeEvent.id, primary |-> TRUE,
                                   event |-> pipeEvent])
    /\ pipePc' = PipeAfter("emit", pipeDerived)
    /\ pipeLog' = Append(pipeLog, "emit")
    /\ UNCHANGED <<now, fbVars, cbVars, scVars, coVars, pipeEvent, pipeDerived, restVars>>

\* step 5, for d in derived: self.scorer.score_and_record(d)
PipeScoreDerived ==
    /\ pipePc = "score_derived"
    /\ PipeScorer(Head(pipeDerived))
    /\ pipeDerived' = <<scRet'.event>> \o Tail(pipeDerived)
    /\ pipePc' = PipeAfter("score_derived", pipeDerived')
    /\ pipeLog' = pipeLog \o <<"score", "record_signal">>
    /\ UNCHANGED <<now, fbVars, cbVars, coVars, pipeEvent, pipeOut, restVars>>

\* step 5, for d in derived: emitter.emit(d)
PipeEmitDerived ==
    /\ pipePc = "emit_derived"
    /\ pipeOut' = Append(pipeOut, [of |-> pipeEvent.id, primary |-> FALSE,
                                   event |-> Head(pipeDerived)])
    /\ pipeDerived' = Tail(pipeDerived)
    /\ pipePc' = PipeAfter("emit_derived", pipeDerived')
    /\ pipeLog' = Append(pipeLog, "emit")
    /\ UNCHANGED <<now, fbVars, cbVars, scVars, coVars, pipeEvent, restVars>>

PipeScoreAny == \E e \in PipeEvents : PipeScore(e)

PipeTick == Tick(PipeClock) /\ UNCHANGED <<fbVars, cbVars, scVars, coVars, outVars>>

\* ============================================================ KanbanCard
\* TaskState (the member names)
TaskStates == {"INBOX", "PLANNED", "RUNNING", "BLOCKED", "REVIEW", "DONE"}

\* TaskState.<member>.value
StateValue(s) ==
    CASE s = "INBOX" -> "inbox" [] s = "PLANNED" -> "planned"
      [] s = "RUNNING" -> "running" [] s = "BLOCKED" -> "blocked"
      [] s = "REVIEW" -> "review" [] s = "DONE" -> "done"

\* as AllowedNext, but a card may go from INBOX straight to DONE
AllowedNext_InboxToDone(s) ==
    CASE s = "INBOX" -> {"PLANNED", "RUNNING", "DONE"}
      [] s = "PLANNED" -> {"RUNNING", "BLOCKED"}
      [] s = "RUNNING" -> {"BLOCKED", "REVIEW", "DONE"}
      [] s = "BLOCKED" -> {"RUNNING", "PLANNED"}
      [] s = "REVIEW" -> {"DONE", "BLOCKED"}
      [] s = "DONE" -> {}

\* allowed_next.get(self.state, [])
AllowedNext(s) ==
    CASE s = "INBOX" -> {"PLANNED", "RUNNING"}
      [] s = "PLANNED" -> {"RUNNING", "BLOCKED"}
      [] s = "RUNNING" -> {"BLOCKED", "REVIEW", "DONE"}
      [] s = "BLOCKED" -> {"RUNNING", "PLANNED"}
      [] s = "REVIEW" -> {"DONE", "BLOCKED"}
      [] s = "DONE" -> {}

\* x or None
OrNone(x) == IF x = "" THEN None ELSE x

\* x or ""
OrEmpty(x) == IF x = None THEN "" ELSE x

\* StateTransition(from_state, to_state, reason, executor), timestamp = now
StateTransition(from_state, to_state, reason, executor) ==
    [from_state |-> from_state, to_state |-> to_state, reason |-> reason,
     executor |-> executor, timestamp |-> now]

\* StateTransition.to_dict
TransitionToDict(t) ==
    [from_state |-> StateValue(t.from_state), to_state |-> StateValue(t.to_state),
     timestamp |-> t.timestamp, reason |-> OrEmpty(t.reason),
     executor |-> OrEmpty(t.executor)]

\* KanbanCard(card_id, title): a new card
KanInit ==
    /\ state = "INBOX"
    /\ state_history = <<>>
    /\ pending_transitions = <<>>
    /\ updated_at = 0
    /\ kanRet = [op |-> "init", new_state |-> None, found |-> None, ret |-> FALSE]
    /\ execution_events = <<>>

\* KanbanCard.transition_to(new_state, reason, executor)
TransitionTo(new_state, reason, executor) ==
    /\ kanRet' = [op |-> "transition_to", new_state |-> new_state, found |-> state,
                  ret |-> new_state \in AllowedNext(state)]
    /\ IF new_state \notin AllowedNext(state)
       THEN UNCHANGED <<state, state_history, pending_transitions, updated_at>>
       ELSE LET t == StateTransition(state, new_state, OrNone(reason), OrNone(executor))
            IN  /\ pending_transitions' = Append(pending_transitions, t)
                /\ state_history' = Append(state_history, TransitionToDict(t))
                /\ state' = new_state
                /\ updated_at' = now
    /\ UNCHANGED <<now, fbVars, cbVars, scVars, coVars, pipeVars, thrVars, emVars, execution_events>>

\* transition_to called with any target state, with and without a reason
KanTransitionAny ==
    /\ Len(state_history) < KanMaxHistory
    /\ \E s \in TaskStates, reason \in {"", "Scheduled"} : TransitionTo(s, reason, "")

KanTick == Tick(KanClock) /\ UNCHANGED <<fbVars, cbVars, scVars, coVars, outVars>>

\* ------------------------------------------------- kanban/events.py
\* The card of id KanCardId is in the store.  The card variables are its row
\* and its state_history rows: store.get builds the card from them with no
\* pending transitions, store.save writes the card back and flushes the
\* pending transitions to the table.
KanCardId == "KAN-001"

\* valid_types of emit_event
KanEventTypes == {"started", "progress", "completed", "failed"}

\* task ids emit_event is called with: the card's, one no card has, none
KanTaskIds == {KanCardId, "KAN-404", None}

\* state_map.get(event_type)
StateMap(event_type) ==
    CASE event_type = "started" -> "RUNNING"
      [] event_type = "completed" -> "REVIEW"
      [] event_type = "failed" -> "BLOCKED"
      [] OTHER -> None

\* card.transition_to(new_state, reason, executor); store.save(card), for the
\* card that store.get returned
TransitionAndSave(new_state, reason, executor) ==
    /\ kanRet' = [op |-> "transition_to", new_state |-> new_state, found |-> state,
                  ret |-> new_state \in AllowedNext(state)]
    /\ pending_transitions' = <<>>
    /\ IF new_state \notin AllowedNext(state)
       THEN UNCHANGED <<state, state_history, updated_at>>
       ELSE LET t == StateTransition(state, new_state, OrNone(reason), OrNone(executor))
            IN  /\ state_history' = Append(state_history, TransitionToDict(t))
                /\ state' = new_state
                /\ updated_at' = now

\* _react_to_event(store, task_id, event_type)
ReactToEvent(task_id, event_type) ==
    IF task_id # KanCardId
    THEN UNCHANGED <<state, state_history, pending_transitions, updated_at, kanRet>>
    ELSE IF StateMap(event_type) # None /\ state # StateMap(event_type)
    THEN TransitionAndSave(StateMap(event_type), "Execution " \o event_type, "system")
    ELSE UNCHANGED <<state, state_history, pending_transitions, updated_at, kanRet>>

\* emit_event(store, task_id, source, event_type, summary)
EmitEvent(task_id, event_type) ==
    /\ event_type \in KanEventTypes
    /\ Len(execution_events) < KanMaxEvents
    /\ execution_events' = Append(execution_events,
                                  [task_id |-> task_id, source |-> "executor",
                                   event_type |-> event_type])
    /\ IF task_id # None /\ event_type \in {"started", "completed", "failed"}
       THEN ReactToEvent(task_id, event_type)
       ELSE UNCHANGED <<state, state_history, pending_transitions, updated_at, kanRet>>
    /\ UNCHANGED <<now, fbVars, cbVars, scVars, coVars, pipeVars, thrVars, emVars>>

EmitEventAny == \E id \in KanTaskIds, ty \in KanEventTypes : EmitEvent(id, ty)

\* KanbanEventBridge.on_task_approved(card_id, approver)
OnTaskApproved ==
    /\ state = "REVIEW"
    /\ TransitionAndSave("DONE", "Approved", "")
    /\ UNCHANGED <<now, fbVars, cbVars, scVars, coVars, pipeVars, thrVars, emVars, execution_events>>

\* =========================================================== watcher.start
\* start(cfg) runs two threads over one CopilotBurstDetector, one scorer and
\* the emitter: the observer thread, which calls the handler for every
\* filesystem event (UnifiedHandler._route, here for a Copilot log entry), and
\* the main thread, which sleeps until KeyboardInterrupt and then flushes.
\* A thread whose pc names a call is inside that call; the call's effect is
\* taken when it returns.
ShutInit ==
    /\ obsPc = "idle"
    /\ obsEvent = CBNoEvent
    /\ obsQueue = <<>>
    /\ mainPc = "sleep"
    /\ mainEvent = <<>>
    /\ shutOut = <<>>

\* observer.stop() has been called
ObserverStopped == mainPc \in {"join", "done"}

\* the observer thread dispatches a Copilot log entry to the handler, which
\* goes on to burst_events = self.copilot_burst.observe(event)
ObsDispatch(event) ==
    /\ obsPc = "idle"
    /\ ~ObserverStopped
    /\ Len(shutOut) < ShutMax
    /\ obsPc' = "observe"
    /\ obsEvent' = event
    /\ UNCHANGED <<now, fbVars, cbVars, scVars, coVars, pipeVars, kanVars, emVars>>
    /\ UNCHANGED <<obsQueue, mainPc, mainEvent, shutOut>>

\* self.copilot_burst.observe(event) returns: the burst events, then the
\* annotated completion, wait for _emit_pipeline
ObsObserve ==
    /\ obsPc = "observe"
    /\ CBObserve(obsEvent)
    /\ obsQueue' = cbRet'.emitted \o <<cbRet'.event>>
    /\ obsPc' = "pipeline"
    /\ UNCHANGED <<pipeVars, kanVars, emVars, obsEvent, mainPc, mainEvent, shutOut>>

\* for be in burst_events: self._emit_pipeline(be); self._emit_pipeline(event):
\* one call, up to its emitter.emit
ObsPipeline ==
    /\ obsPc = "pipeline"
    /\ shutOut' = Append(shutOut, [by |-> "observer", event |-> Head(obsQueue)])
    /\ obsQueue' = Tail(obsQueue)
    /\ obsPc' = IF Tail(obsQueue) = <<>> THEN "idle" ELSE "pipeline"
    /\ UNCHANGED <<now, fbVars, cbVars, scVars, coVars, pipeVars, kanVars, emVars>>
    /\ UNCHANGED <<obsEvent, mainPc, mainEvent>>

\* except KeyboardInterrupt: the main thread leaves time.sleep and goes on to
\* flush_event = copilot_burst.flush()
MainInterrupt ==
    /\ mainPc = "sleep"
    /\ mainPc' = "flush"
    /\ UNCHANGED <<now, fbVars, cbVars, scVars, coVars, pipeVars, kanVars, emVars>>
    /\ UNCHANGED <<obsPc, obsEvent, obsQueue, mainEvent, shutOut>>

\* copilot_burst.flush() returns
MainFlush ==
    /\ mainPc = "flush"
    /\ CBFlush
    /\ mainEvent' = cbRet'.emitted
    /\ mainPc' = IF cbRet'.emitted # <<>> THEN "emit" ELSE "stop"
    /\ UNCHANGED <<pipeVars, kanVars, emVars, obsPc, obsEvent, obsQueue, shutOut>>

\* if flush_event: scorer.score_and_record(flush_event); emitter.emit(flush_event)
MainEmit ==
    /\ mainPc = "emit"
    /\ shutOut' = Append(shutOut, [by |-> "main", event |-> Head(mainEvent)])
    /\ mainPc' = "stop"
    /\ UNCHANGED <<now, fbVars, cbVars, scVars, coVars, pipeVars, kanVars, emVars>>
    /\ UNCHANGED <<obsPc, obsEvent, obsQueue, mainEvent>>

\* observer.stop()
MainStop ==
    /\ mainPc = "stop"
    /\ mainPc' = "join"
    /\ UNCHANGED <<now, fbVars, cbVars, scVars, coVars, pipeVars, kanVars, emVars>>
    /\ UNCHANGED <<obsPc, obsEvent, obsQueue, mainEvent, shutOut>>

\* observer.join(): returns when the observer thread has left the handler
MainJoin ==
    /\ mainPc = "join"
    /\ obsPc = "idle"
    /\ mainPc' = "done"
    /\ UNCHANGED <<now, fbVars, cbVars, scVars, coVars, pipeVars, kanVars, emVars>>
    /\ UNCHANGED <<obsPc, obsEvent, obsQueue, mainEvent, shutOut>>

ObsDispatchAny == \E e \in CBEvents : ObsDispatch(e)

ShutTick == Tick(ShutClock) /\ UNCHANGED <<fbVars, cbVars, scVars, coVars, outVars>>


\* ================================================================== emitter
\* emitter.py with PICOCLAW_URL configured (watcher.py sets it from the
\* configuration before the observer starts). emit is called by the thread
\* that handles an event; the retry worker is a thread of its own. A payload
\* is the number of the emit call that produced it. Whether a POST is answered
\* with r.ok is the server's choice.
RETRY_MAXLEN == 1000

EmInit ==
    /\ retry_queue = <<>>
    /\ emMade = 0
    /\ delivered = {}
    /\ jsonl = 0
    /\ wkPc = "none"
    /\ wkPayload = Null

\* the emit calls explored: those that fill the queue to one short of its
\* maxlen, and EmMaxEmits more
EmCalls == RETRY_MAXLEN - 1 + EmMaxEmits

\* deque(maxlen=RETRY_MAXLEN).append(x): a full deque discards its leftmost item
DequeAppend(q, x) ==
    IF Len(q) = RETRY_MAXLEN THEN Tail(q) \o <<x>> ELSE Append(q, x)

\* _flush_retry_queue(): nothing while a worker is alive, else a new worker
FlushRetryQueue ==
    wkPc' = IF wkPc # "none" THEN wkPc ELSE "read"

\* emit(event), the POST answered with r.ok: the retry queue is flushed and
\* the call returns without writing the JSONL file
EmitOk ==
    /\ emMade < EmCalls
    /\ emMade' = emMade + 1
    /\ delivered' = delivered \cup {emMade + 1}
    /\ FlushRetryQueue
    /\ UNCHANGED <<retry_queue, jsonl, wkPayload>>
    /\ UNCHANGED <<now, fbVars, cbVars, scVars, coVars, pipeVars, kanVars, thrVars>>

\* emit(event), the POST failing or raising: the payload is queued under the
\* lock and written to the JSONL file
EmitFail ==
    /\ emMade < EmCalls
    /\ emMade' = emMade + 1
    /\ retry_queue' = DequeAppend(retry_queue, emMade + 1)
    /\ jsonl' = jsonl + 1
    /\ UNCHANGED <<delivered, wkPc, wkPayload>>
    /\ UNCHANGED <<now, fbVars, cbVars, scVars, coVars, pipeVars, kanVars, thrVars>>

\* _retry_worker, top of the loop: under the lock it reads _retry_queue[0];
\* an empty queue ends the thread
WkRead ==
    /\ wkPc = "read"
    /\ IF retry_queue = <<>>
         THEN wkPc' = "none" /\ wkPayload' = Null
         ELSE wkPc' = "post" /\ wkPayload' = Head(retry_queue)
    /\ UNCHANGED <<retry_queue, emMade, delivered, jsonl>>
    /\ UNCHANGED <<now, fbVars, cbVars, scVars, coVars, pipeVars, kanVars, thrVars>>

\* _retry_worker, requests.post(payload) outside the lock, answered with r.ok
WkPostOk ==
    /\ wkPc = "post"
    /\ delivered' = delivered \cup {wkPayload}
    /\ wkPc' = "pop"
    /\ UNCHANGED <<retry_queue, emMade, jsonl, wkPayload>>
    /\ UNCHANGED <<now, fbVars, cbVars, scVars, coVars, pipeVars, kanVars, thrVars>>

\* _retry_worker, the POST failing or raising: break, the thread ends
WkPostFail ==
    /\ wkPc = "post"
    /\ wkPc' = "none"
    /\ wkPayload' = Null
    /\ UNCHANGED <<retry_queue, emMade, delivered, jsonl>>
    /\ UNCHANGED <<now, fbVars, cbVars, scVars, coVars, pipeVars, kanVars, thrVars>>

\* _retry_worker after r.ok: under the lock, _retry_queue.popleft(); continue
WkPop ==
    /\ wkPc = "pop"
    /\ retry_queue' = Tail(retry_queue)
    /\ wkPc' = "read"
    /\ UNCHANGED <<emMade, delivered, jsonl, wkPayload>>
    /\ UNCHANGED <<now, fbVars, cbVars, scVars, coVars, pipeVars, kanVars, thrVars>>

\* the emitter after RETRY_MAXLEN - 1 emit calls whose POSTs all failed: the
\* queue is one payload short of its maxlen and no worker was ever started
EmAtCap ==
    /\ retry_queue = [i \in 1..(RETRY_MAXLEN - 1) |-> i]
    /\ emMade = RETRY_MAXLEN - 1
    /\ delivered = {}
    /\ jsonl = RETRY_MAXLEN - 1
    /\ wkPc = "none"
    /\ wkPayload = Null

\* EventType.all_types(): the closed taxonomy
EventTypes ==
    {"copilot.prompt", "copilot.completion", "copilot.error",
     "copilot.burst_start", "copilot.burst_end",
     "antigravity.task.created", "antigravity.task.updated",
     "antigravity.task.progress", "antigravity.task.completed",
     "antigravity.task.failed", "antigravity.task.walkthrough_added",
     "antigravity.task.plan_ready", "antigravity.task.iterated",
     "antigravity.skill.updated", "antigravity.artifact.unknown",
     "git.commit", "git.commit_linked_to_task", "filesystem.batch_modified",
     "workflow.task_inferred", "workflow.activity_clustered",
     "workflow.conflict_detected"}

\* EventType.is_valid(event_type)
IsValid(event_type) == event_type \in EventTypes

\* events as WorkflowEvent.make returns them for an event_type string that is
\* not in the taxonomy (make takes any string)
PipeForeignEvents ==
    {PipeEvent("copilot", "copilot.random", None, None, {}, Null),
     PipeEvent("git", "made.up.event", "sha1", None, {"a"}, Null)}

\* _emit_pipeline called with events of kinds in and outside the taxonomy
PipeOpenEvents == PipeForeignEvents \cup {e \in PipeEvents : e.source = "antigravity"}

PipeScoreOpen == \E e \in PipeOpenEvents : PipeScore(e)

\* a window after n events made from one template were recorded at clock 0
CoFilled(template, n) ==
    [i \in 1..n |-> [t |-> 0, ev |-> [template EXCEPT !.id = i]]]

\* the window of the given source after MAX_EVENTS - 1 events of source
\* filled were recorded, the other windows being empty
CoWindowAtCap(source, filled) ==
    IF filled.source = source THEN CoFilled(filled, MAX_EVENTS - 1) ELSE <<>>

\* a correlator one of whose windows is one entry short of MAX_EVENTS: the
\* state MAX_EVENTS - 1 record calls with events of one source lead to
CoCapInit ==
    /\ now = 0
    /\ FBInit
    /\ CBInit
    /\ ScInit
    /\ PipeInit
    /\ KanInit
    /\ ShutInit
    /\ EmInit
    /\ coMade = MAX_EVENTS - 1
    /\ coRet = [op |-> "init", arg |-> CoNoEvent, event |-> CoNoEvent, derived |-> <<>>]
    /\ \E e \in CoSourceEvents :
          /\ tasks = CoWindowAtCap("antigravity", e)
          /\ commits = CoWindowAtCap("git", e)
          /\ fs_events = CoWindowAtCap("filesystem", e)
          /\ copilot_events = CoWindowAtCap("copilot", e)

\* recording at the cap: events of every source, and events no window takes
CoCapRecord ==
    /\ coMade < MAX_EVENTS - 1 + CoCapMax
    /\ \E e \in CoSourceEvents \cup CoUnheldEvents : CoRecord(e)
    /\ UNCHANGED outVars

\* correlate is called as the pipeline calls it, with the event recorded last
CoCapCorrelate ==
    /\ \E e \in {h \in CoHeld : h.id = coMade} : CoCorrelate(e)
    /\ UNCHANGED outVars

CoCapTick == Tick(CoCapClock) /\ UNCHANGED <<fbVars, cbVars, scVars, coVars, outVars>>

Init ==
    /\ now = 0
    /\ FBInit
    /\ CBInit
    /\ ScInit
    /\ CoInit
    /\ PipeInit
    /\ KanInit
    /\ ShutInit
    /\ EmInit

FBNext == FBObserveAny \/ FBTick

FBSpec == Init /\ [][FBNext]_vars

CBNext == CBObserveAny \/ CBFlushNow \/ CBTick

CBSpec == Init /\ [][CBNext]_vars

ScNext == ScScoreAny \/ ScRecordSignalAny \/ ScScoreAndRecordAny \/ ScTick

ScSpec == Init /\ [][ScNext]_vars

ScKindNext == ScKindScore \/ ScKindRecordSignal \/ ScKindScoreAndRecord \/ ScTick

ScKindSpec == Init /\ [][ScKindNext]_vars

CoLinkNext == CoLinkRecord \/ CoLinkCorrelate \/ CoLinkTick

CoLinkSpec == Init /\ [][CoLinkNext]_vars

CoClusterNext == CoClusterRecord \/ CoClusterCorrelate \/ CoClusterTick

CoClusterSpec == Init /\ [][CoClusterNext]_vars

CoCapNext == CoCapRecord \/ CoCapCorrelate \/ CoCapTick

CoCapSpec == CoCapInit /\ [][CoCapNext]_vars

PipeNext ==
    \/ PipeScoreAny
    \/ PipeRecord
    \/ PipeCorrelate
    \/ PipeEmit
    \/ PipeScoreDerived
    \/ PipeEmitDerived
    \/ PipeTick

PipeSpec == Init /\ [][PipeNext]_vars

PipeOpenNext ==
    \/ PipeScoreOpen
    \/ PipeRecord
    \/ PipeCorrelate
    \/ PipeEmit
    \/ PipeScoreDerived
    \/ PipeEmitDerived
    \/ PipeTick

PipeOpenSpec == Init /\ [][PipeOpenNext]_vars

KanNext == KanTransitionAny \/ KanTick

KanSpec == Init /\ [][KanNext]_vars

ShutNext ==
    \/ ObsDispatchAny
    \/ ObsObserve
    \/ ObsPipeline
    \/ MainInterrupt
    \/ MainFlush
    \/ MainEmit
    \/ MainStop
    \/ MainJoin
    \/ ShutTick

ShutSpec == Init /\ [][ShutNext]_vars

ScEdgeNext == ScEdgeScore \/ ScEdgeScoreAndRecord \/ ScEdgeTick

ScEdgeSpec == Init /\ [][ScEdgeNext]_vars

\* start(cfg) with both threads scheduled: a thread that can take its next
\* step takes it, and KeyboardInterrupt arrives; completions need not arrive
ShutFairSpec ==
    /\ ShutSpec
    /\ WF_vars(ObsObserve) /\ WF_vars(ObsPipeline)
    /\ WF_vars(MainInterrupt) /\ WF_vars(MainFlush) /\ WF_vars(MainEmit)
    /\ WF_vars(MainStop) /\ WF_vars(MainJoin)

\* the handler fed events with absent optional fields: completions without
\* token counts go to the burst detector, planning-task events and commits
\* with and without file lists to the correlator
EmCapInit ==
    /\ now = 0
    /\ FBInit
    /\ CBInit
    /\ ScInit
    /\ CoInit
    /\ PipeInit
    /\ KanInit
    /\ ShutInit /\ EmAtCap

EmNext == EmitOk \/ EmitFail \/ WkRead \/ WkPostOk \/ WkPostFail \/ WkPop

EmSpec == EmCapInit /\ [][EmNext]_vars

OptNext == CBObserveOpt \/ CoOptRecord \/ CoOptCorrelate

OptSpec == Init /\ [][OptNext]_vars

KanEventNext == EmitEventAny \/ OnTaskApproved \/ KanTick

KanEventSpec == Init /\ [][KanEventNext]_vars

\* ------------------------------------------------------------------- C1
\* position of the last fire strictly before call k (0 when there is none)
FBPrevFire(k) ==
    LET earlier == {j \in fbFired : j < k}
    IN  IF earlier = {} THEN 0 ELSE CHOOSE j \in earlier : \A i \in earlier : i <= j

\* calls not consumed by a fire before call k whose age at call k is within the window
FBLive(k) ==
    {i \in (FBPrevFire(k) + 1)..k : fbLog[k] - fbLog[i] <= FB_window_secs}

\* C1: for every observe call made so far, the call returned a batch event
\* exactly when the entries observed since the previous fire (this call's
\* included) whose age is at most the window number at least the threshold;
\* an entry whose age equals the window counts, entries consumed by an earlier
\* fire do not.
C1_FiresExactlyAtThreshold ==
    \A k \in 1..Len(fbLog) :
        (k \in fbFired) <=> (Cardinality(FBLive(k)) >= FB_threshold)

\* a fire whose oldest counted entry is exactly window_secs old, after an
\* earlier fire and after an entry that aged out
C1_Witness ==
    /\ fbRet # <<>>
    /\ Cardinality(fbFired) >= 2
    /\ \E i \in FBLive(Len(fbLog)) : fbLog[Len(fbLog)] - fbLog[i] = FB_window_secs
    /\ \E i \in 1..Len(fbLog) :
          /\ i > FBPrevFire(Len(fbLog))
          /\ fbLog[Len(fbLog)] - fbLog[i] > FB_window_secs

\* ------------------------------------------------------------------- C2
\* the window entries whose age at clock reading t is at most window_secs
CBFresh(t) == SelectSeq(window, LAMBDA e : t - e.t <= CB_window_secs)

C3_OneEventPerTransition ==
    [][ (\E e \in CBEvents : CBObserve(e)) =>
          LET before == IsInBurst
              after == IsInBurst'
              out == cbRet'.emitted
          IN  /\ (~before /\ after) =>
                    (Len(out) = 1 /\ out[1].event_type = "copilot.burst_start")
              /\ (before /\ ~after) =>
                    (Len(out) = 1 /\ out[1].event_type = "copilot.burst_end")
              /\ (before <=> after) => out = <<>>
      ]_vars

\* an observe that ended the second burst: both transitions have been taken
C3_Witness ==
    /\ cbRet.op = "observe"
    /\ Len(cbRet.emitted) = 1
    /\ cbRet.emitted[1].event_type = "copilot.burst_end"
    /\ cbRet.emitted[1].burst_id = 2
    /\ ~IsInBurst

\* ------------------------------------------------------------------- C4
ScScoredSources == {"antigravity", "git", "copilot", "filesystem"}

\* C4: whatever signals have been recorded, the confidence that score or
\* score_and_record assigns to a planning-system, version-control, ai-assist
\* or filesystem event lies in [0, 1] (0..10 tenths).
C4_ConfidenceInUnitInterval ==
    (scRet.op \in {"score", "score_and_record"} /\ scRet.event.source \in ScScoredSources)
        => /\ 0 <= scRet.score /\ scRet.score <= 10
           /\ scRet.op = "score_and_record" =>
                 (0 <= scRet.event.confidence /\ scRet.event.confidence <= 10)

\* a completion carrying a burst id and its own task id scored with both the
\* filesystem and the commit window non-empty: every bonus applies
C4_Witness ==
    /\ scRet.op = "score"
    /\ scRet.event.source = "copilot"
    /\ scRet.event.burst_id # Null
    /\ scRet.event.task_id # None
    /\ recent_fs # <<>>
    /\ recent_git # <<>>
    /\ scRet.score = 10

\* ------------------------------------------------------------------- C7
ScAllEmpty == recent_fs = <<>> /\ recent_git = <<>> /\ recent_tasks = <<>>

\* a step that is a call of the scorer (the clock does not move during a call)
ScCall(ops) == now' = now /\ scRet'.op \in ops

\* C7: score_and_record scores the event against the windows as they are
\* before the event is recorded, stores that score in event.confidence, then
\* records the event and returns it; an event is never a signal for its own
\* score (a lone filesystem event scores 0.4, a lone commit 0.6).
C7_ScoreThenRecord ==
    [][ ScCall({"score_and_record"}) =>
          LET e == scRet'.event
              before == Score(e, recent_fs, recent_git, recent_tasks, now)
              after == RecordSignal(e, before.fs, before.git, before.tasks, now)
          IN  /\ scRet'.score = before.score
              /\ e.confidence = before.score
              /\ recent_fs' = after.fs
              /\ recent_git' = after.git
              /\ recent_tasks' = after.tasks
              /\ (ScAllEmpty /\ e.source = "filesystem") => e.confidence = 4
              /\ (ScAllEmpty /\ e.source = "git") => e.confidence = 6
              /\ (ScAllEmpty /\ e.source = "copilot"
                    /\ e.burst_id = Null /\ e.task_id = None) => e.confidence = 2
      ]_vars

\* an ai-assist event of kind git.commit went through score_and_record with
\* every window empty: it now sits in the commit window, and its score has no
\* commit-proximity bonus
C7_Witness ==
    /\ scRet.op = "score_and_record"
    /\ scRet.event.source = "copilot"
    /\ scRet.event.event_type = "git.commit"
    /\ scRet.score = 2
    /\ scRet.event.confidence = 2
    /\ recent_git = <<[t |-> now, ref |-> scRet.event.id]>>
    /\ recent_fs = <<>>
    /\ recent_tasks = <<>>

\* ------------------------------------------------------------- C8 C9 C10
\* the window holds an entry whose age is within the horizon
ScLive(w, horizon) == \E i \in 1..Len(w) : now - w[i].t <= horizon

\* a step that scores an event of the given source, alone or as the first
\* half of score_and_record
ScScores(source) ==
    ScCall({"score", "score_and_record"}) /\ scRet'.event.source = source

\* C8: the score of an ai-assist event is min(1.0, 0.2 + 0.2 [burst id]
\* + 0.2 [filesystem window non-empty] + 0.2 [commit window non-empty]
\* + (0.2 if it has a task id, else 0.1 if the task window is non-empty)).
C8_CopilotScore ==
    [][ ScScores("copilot") =>
          LET e == scRet'.event IN
          scRet'.score =
              Min(10, 2 + (IF e.burst_id # Null THEN 2 ELSE 0)
                        + (IF ScLive(recent_fs, 30) THEN 2 ELSE 0)
                        + (IF ScLive(recent_git, 120) THEN 2 ELSE 0)
                        + (IF e.task_id # None THEN 2
                           ELSE IF ScLive(recent_tasks, 300) THEN 1 ELSE 0))
      ]_vars

\* a completion without burst id or task id scored 0.5: filesystem and task
\* windows non-empty, no commit signal
C8_Witness ==
    /\ scRet.op = "score"
    /\ scRet.event.source = "copilot"
    /\ scRet.event.burst_id = Null
    /\ scRet.event.task_id = None
    /\ recent_fs # <<>>
    /\ recent_tasks # <<>>
    /\ scRet.score = 5

\* C9: the score of a version-control event is 0.8 if its task id equals a
\* task id in the task window, otherwise 0.7 if the task window is non-empty,
\* otherwise 0.6; the two bonuses are never both applied.
C9_GitScore ==
    [][ ScScores("git") =>
          LET e == scRet'.event IN
          scRet'.score =
              IF /\ e.task_id # None
                 /\ \E i \in 1..Len(recent_tasks) :
                       /\ now - recent_tasks[i].t <= 300
                       /\ recent_tasks[i].ref = e.task_id
              THEN 8
              ELSE IF ScLive(recent_tasks, 300) THEN 7 ELSE 6
      ]_vars

\* a commit whose task id is in the task window scored 0.8
C9_Witness ==
    /\ scRet.op = "score"
    /\ scRet.event.source = "git"
    /\ scRet.event.task_id # None
    /\ \E i \in 1..Len(recent_tasks) : recent_tasks[i].ref = scRet.event.task_id
    /\ scRet.score = 8

\* C10: the score of a filesystem event is 0.4 + 0.2 [task window non-empty]
\* + 0.1 [commit window non-empty], whatever the filesystem window holds and
\* whatever the event's fields are.
C10_FilesystemScore ==
    [][ ScScores("filesystem") =>
          scRet'.score = 4 + (IF ScLive(recent_tasks, 300) THEN 2 ELSE 0)
                           + (IF ScLive(recent_git, 120) THEN 1 ELSE 0)
      ]_vars

\* a filesystem event carrying a task id, a burst id and a preset confidence
\* scored 0.7 with task and commit signals present
C10_Witness ==
    /\ scRet.op = "score"
    /\ scRet.event.source = "filesystem"
    /\ scRet.event.task_id # None
    /\ recent_tasks # <<>>
    /\ recent_git # <<>>
    /\ scRet.score = 7
\* ---------------------------------------------------------------------------
\* TemporalCorrelator: commit linking and activity clustering

\* a call of correlate has just returned
CoCall == now' = now /\ coRet'.op = "correlate"

\* the positions of window w whose entries are no older than horizon
CoLive(w, horizon) == {i \in 1..Len(w) : now - w[i].t <= horizon}

\* the largest member of a non-empty set of positions
CoLast(S) == CHOOSE i \in S : \A j \in S : j <= i

\* the derived event a commit gets when the task at position at is chosen by
\* the strategy named type
CoLinkIs(link, commit, at, type, confidence) ==
    /\ link.event_type = "git.commit_linked_to_task"
    /\ link.correlation_type = type
    /\ link.confidence = confidence
    /\ link.task_id = tasks[at].ev.task_id
    /\ link.correlated_events = <<commit.id, tasks[at].ev.id>>

\* C5: a commit correlated against a task window that is not empty after
\* eviction to TASK_COMMIT_WINDOW is linked by the strongest strategy that
\* applies, to the most recent task matching under that strategy: the same task
\* id (task_match, 1.0), else shared files (file_overlap, 0.8), else the most
\* recent task of the window (time_proximity, 0.5)
C5_StrongestStrategyMostRecentTask ==
    [][ (CoCall /\ coRet'.arg.event_type = "git.commit")
        => LET commit == coRet'.arg
               live == CoLive(tasks, TASK_COMMIT_WINDOW)
               byId == {i \in live : commit.task_id # None
                                     /\ tasks[i].ev.task_id = commit.task_id}
               byFiles == {i \in live :
                              commit.files_changed \cap tasks[i].ev.files_changed # {}}
           IN  live # {}
               => /\ Len(coRet'.derived) >= 1
                  /\ IF byId # {}
                     THEN CoLinkIs(coRet'.derived[1], commit, CoLast(byId),
                                   "task_match", 10)
                     ELSE IF byFiles # {}
                     THEN CoLinkIs(coRet'.derived[1], commit, CoLast(byFiles),
                                   "file_overlap", 8)
                     ELSE CoLinkIs(coRet'.derived[1], commit, CoLast(live),
                                   "time_proximity", 5) ]_vars

\* a commit with the task id of one task and a file of a later task has been
\* linked to the task of its id
C5_Witness ==
    /\ coRet.op = "correlate"
    /\ coRet.arg.event_type = "git.commit"
    /\ coRet.arg.task_id # None
    /\ Len(coRet.derived) >= 1
    /\ coRet.derived[1].correlation_type = "task_match"
    /\ coRet.derived[1].confidence = 10
    /\ \E i, j \in 1..Len(tasks) :
          /\ i < j
          /\ tasks[i].ev.id = coRet.derived[1].correlated_events[2]
          /\ tasks[i].ev.task_id = coRet.arg.task_id
          /\ tasks[j].ev.task_id # coRet.arg.task_id
          /\ tasks[j].ev.files_changed \cap coRet.arg.files_changed # {}

\* the sources of the entries of window w that are no older than CLUSTER_WINDOW
CoSourcesIn(w) == {w[i].ev.source : i \in CoLive(w, CLUSTER_WINDOW)}

\* the sources present in the four windows after eviction to CLUSTER_WINDOW
CoSources ==
    CoSourcesIn(tasks) \cup CoSourcesIn(commits) \cup CoSourcesIn(fs_events)
    \cup CoSourcesIn(copilot_events)

\* the positions of the activity-clustered events in a list of derived events
CoClustersIn(derived) ==
    {i \in 1..Len(derived) : derived[i].event_type = "workflow.activity_clustered"}

ScAgScoreOfKind(kind) ==
    CASE kind \in {"antigravity.task.completed",
                   "antigravity.task.walkthrough_added"} -> 10
      [] kind \in {"antigravity.task.created", "antigravity.task.plan_ready"} -> 9
      [] kind = "antigravity.task.failed" -> 9
      [] kind = "antigravity.artifact.unknown" -> 3
      [] OTHER -> 8

C12_OtherSourcesPassThrough ==
    (scRet.op \in {"score", "score_and_record"} /\ scRet.arg.source \notin ScScoredSources)
        => /\ scRet.score = scRet.arg.confidence
           /\ scRet.event.confidence = scRet.arg.confidence

\* a derived event of confidence 0.7 has gone through score_and_record with
\* signals in the windows and still has confidence 0.7
C12_Witness ==
    /\ scRet.op = "score_and_record"
    /\ scRet.arg.source = "agent"
    /\ scRet.arg.confidence = 7
    /\ scRet.event.confidence = 7
    /\ recent_fs # <<>>
    /\ recent_git # <<>>

\* ------------------------------------------------------------------ C13
\* the entry record_signal appends at the present time
ScEntry(ref) == [t |-> now, ref |-> ref]

FBQueuedPaths ==
    FBPathsInWindow(SelectSeq(recent, LAMBDA e : now - e.t <= FB_window_secs))

\* C14: when observe fires, the event it returns has kind
\* filesystem.batch_modified, confidence 0.4 and the paths queued at that
\* moment, the observed one last, in arrival order; the queue is empty right
\* after, so none of the next threshold-1 observations fires.
C14_FireCarriesQueueAndClears ==
    /\ [][ \A p \in Paths :
              (FBObserve(p) /\ fbRet' # <<>>)
              => /\ Len(fbRet') = 1
                 /\ fbRet'[1].event_type = "filesystem.batch_modified"
                 /\ fbRet'[1].confidence = 4
                 /\ fbRet'[1].files_changed = FBQueuedPaths \o <<p>>
                 /\ recent' = <<>> ]_vars
    /\ [](\A k \in fbFired : \A j \in 1..(FB_threshold - 1) : (k + j) \notin fbFired)

\* a burst of three paths has fired three calls after the previous burst: the
\* two calls in between returned nothing
C14_Witness ==
    /\ fbRet # <<>>
    /\ fbRet[1].files_changed = <<"/a.py", "/b.py", "/a.py">>
    /\ recent = <<>>
    /\ Len(fbLog) \in fbFired
    /\ (Len(fbLog) - FB_threshold) \in fbFired

\* ------------------------------------------------------------------ C15
\* a call of flush has just returned
CBFlushCall == now' = now /\ cbRet'.op = "flush"

\* C15: flush returns one burst-end event carrying the active burst id when a
\* burst is active and nothing when the detector is idle; it always leaves the
\* detector idle; a flush that follows a flush returns nothing.
C15_FlushEndsActiveBurst ==
    [][ CBFlushCall
        => /\ IsInBurst => /\ Len(cbRet'.emitted) = 1
                           /\ cbRet'.emitted[1].event_type = "copilot.burst_end"
                           /\ cbRet'.emitted[1].burst_id = active_burst_id
           /\ ~IsInBurst => cbRet'.emitted = <<>>
           /\ ~IsInBurst'
           /\ active_burst_id' = Null
           /\ cbRet.op = "flush" => cbRet'.emitted = <<>> ]_vars

\* flush has closed the second burst and left the detector idle
C15_Witness ==
    /\ cbRet.op = "flush"
    /\ Len(cbRet.emitted) = 1
    /\ cbRet.emitted[1].event_type = "copilot.burst_end"
    /\ cbRet.emitted[1].burst_id = 2
    /\ ~IsInBurst

\* ------------------------------------------------------------------ C16
\* C16: after an observe call that leaves a burst active, the start of the
\* burst included, the observed event carries the active burst id and the
\* detector's running token total and entry count; after an observe call that
\* leaves no burst active, the end of a burst included, the observed event
\* carries no burst annotation.
C16_AnnotatedWhileBurstActive ==
    cbRet.op = "observe"
        => IF IsInBurst
           THEN /\ cbRet.event.burst_id = active_burst_id
                /\ cbRet.event.burst_token_total = burst_token_total
                /\ cbRet.event.burst_entry_count = burst_entry_count
           ELSE /\ cbRet.event.burst_id = Null
                /\ cbRet.event.burst_token_total = Null
                /\ cbRet.event.burst_entry_count = Null

\* the event whose observation started a burst on the token total carries the
\* new burst id and the totals of the window
C16_Witness ==
    /\ cbRet.op = "observe"
    /\ Len(cbRet.emitted) = 1
    /\ cbRet.emitted[1].event_type = "copilot.burst_start"
    /\ cbRet.event.burst_id = active_burst_id
    /\ active_burst_id # Null
    /\ cbRet.event.burst_token_total = burst_token_total
    /\ burst_token_total >= CB_token_threshold
    /\ cbRet.event.burst_entry_count = Len(window)

\* ------------------------------------------------------------------ C17
\* the positions of the commit-linked events in a list of derived events
CoLinksIn(derived) ==
    {i \in 1..Len(derived) : derived[i].event_type = "git.commit_linked_to_task"}

\* a call of correlate with a commit has just returned
CoCommitCall == CoCall /\ coRet'.arg.event_type = "git.commit"

\* C17: when correlate links a commit to a task, the commit leaves the call
\* with the chosen task's id and title, the winning strategy as correlation
\* type and [chosen task event id] as linked events, and the call returns a
\* commit-linked event with the chosen task's id and linked events
\* [commit id, chosen task event id].
C17_LinkAnnotatesCommit ==
    [][ (CoCommitCall /\ CoLinksIn(coRet'.derived) # {})
        => LET commit == coRet'.arg
               after == coRet'.event
               link == coRet'.derived[1]
           IN  /\ CoLinksIn(coRet'.derived) = {1}
               /\ \E i \in CoLive(tasks, TASK_COMMIT_WINDOW) :
                     LET chosen == tasks[i].ev
                     IN  /\ link.task_id = chosen.task_id
                         /\ link.correlated_events = <<commit.id, chosen.id>>
                         /\ link.correlation_type
                               \in {"task_match", "file_overlap", "time_proximity"}
                         /\ after = [commit EXCEPT
                                        !.task_id = chosen.task_id,
                                        !.task_title = chosen.task_title,
                                        !.correlation_type = link.correlation_type,
                                        !.correlated_events = <<chosen.id>>] ]_vars

\* a commit that came with the id of no task in the window has been linked by
\* time proximity and carries the id and title of the most recent task
C17_Witness ==
    /\ coRet.op = "correlate"
    /\ coRet.arg.task_id = "t3"
    /\ coRet.arg.correlation_type = None
    /\ coRet.event.task_id = "t2"
    /\ coRet.event.task_title = "Add feature"
    /\ coRet.event.correlation_type = "time_proximity"
    /\ Len(coRet.derived) >= 1
    /\ coRet.derived[1].event_type = "git.commit_linked_to_task"
    /\ coRet.derived[1].task_id = "t2"
    /\ Len(coRet.event.correlated_events) = 1
    /\ coRet.derived[1].correlated_events
          = <<coRet.arg.id>> \o coRet.event.correlated_events

\* ------------------------------------------------------------------ C18
\* C18: when the task window holds no entry within TASK_COMMIT_WINDOW,
\* correlating a commit returns no commit-linked event and leaves the commit's
\* task id, task title, correlation type and linked events as they were.
C18_NoLinkWithoutRecentTask ==
    [][ (CoCommitCall /\ CoLive(tasks, TASK_COMMIT_WINDOW) = {})
        => /\ CoLinksIn(coRet'.derived) = {}
           /\ coRet'.event.task_id = coRet'.arg.task_id
           /\ coRet'.event.task_title = coRet'.arg.task_title
           /\ coRet'.event.correlation_type = coRet'.arg.correlation_type
           /\ coRet'.event.correlated_events = coRet'.arg.correlated_events ]_vars

\* a commit with a task id has been correlated after every recorded task had
\* aged out of the window: nothing is returned and the commit is as it came
C18_Witness ==
    /\ coRet.op = "correlate"
    /\ coRet.arg.event_type = "git.commit"
    /\ coRet.arg.task_id = "t1"
    /\ coRet.event = coRet.arg
    /\ coRet.derived = <<>>
    /\ tasks = <<>>
    /\ commits = <<>>
    /\ coMade = CoLinkMax
    /\ now > TASK_COMMIT_WINDOW

\* ------------------------------------------------------------------ C19
\* a call of record has just returned
CoRecordCall == now' = now /\ coRet'.op = "record"

\* window after is window before with the entry appended, less the oldest
\* entry of before when before was full
CoPushedTo(before, after, entry) ==
    after = IF Len(before) < MAX_EVENTS
            THEN Append(before, entry)
            ELSE SubSeq(before, 2, Len(before)) \o <<entry>>

\* C19: each of the four windows holds at most MAX_EVENTS entries at all
\* times; a record call appends the event to the one window of its source
\* (the task window only when a planning-system event has a task id), dropping
\* that window's oldest entry when it was full, and leaves the other windows
\* alone; an event of any other source changes no window.
C19_WindowsCappedOldestDropped ==
    /\ [](/\ Len(tasks) <= MAX_EVENTS
          /\ Len(commits) <= MAX_EVENTS
          /\ Len(fs_events) <= MAX_EVENTS
          /\ Len(copilot_events) <= MAX_EVENTS)
    /\ [][ CoRecordCall
           => LET ev == coRet'.arg
                  entry == [t |-> now, ev |-> ev]
              IN  IF ev.source = "antigravity" /\ ev.task_id # None
                  THEN /\ CoPushedTo(tasks, tasks', entry)
                       /\ UNCHANGED <<commits, fs_events, copilot_events>>
                  ELSE IF ev.source = "git"
                  THEN /\ CoPushedTo(commits, commits', entry)
                       /\ UNCHANGED <<tasks, fs_events, copilot_events>>
                  ELSE IF ev.source = "filesystem"
                  THEN /\ CoPushedTo(fs_events, fs_events', entry)
                       /\ UNCHANGED <<tasks, commits, copilot_events>>
                  ELSE IF ev.source = "copilot"
                  THEN /\ CoPushedTo(copilot_events, copilot_events', entry)
                       /\ UNCHANGED <<tasks, commits, fs_events>>
                  ELSE UNCHANGED <<tasks, commits, fs_events, copilot_events>> ]_vars

\* a record call has found the task window full: the window still holds
\* MAX_EVENTS entries, the first recorded one is gone and the new one is last
C19_Witness ==
    /\ coRet.op = "record"
    /\ Len(tasks) = MAX_EVENTS
    /\ tasks[1].ev.id = 2
    /\ tasks[MAX_EVENTS].ev = coRet.arg
    /\ coRet.arg.id = MAX_EVENTS + 1

\* ------------------------------------------------------------------ C20
\* the calls _emit_pipeline makes for one event, in order, when its correlate
\* call returns n derived events
PipeCallOrder(n) ==
    <<"score", "record_signal", "record", "correlate", "emit">>
    \o [k \in 1..(3 * n) |-> <<"score", "record_signal", "emit">>[((k - 1) % 3) + 1]]

\* the positions of pipeOut that belong to raw event number i
PipeOutOf(i) == {k \in 1..Len(pipeOut) : pipeOut[k].of = i}

\* the handler has called correlate for the event it is handling
PipeCorrelated == Len(pipeLog) >= 4

\* the handler has emitted the event it is handling
PipeEmitted == Len(pipeLog) >= 5

\* C20: for every raw event the pipeline calls score, record (the scorer's
\* window, then the correlator's), correlate and emit in that order; the
\* primary event is emitted exactly once, as correlate left it, and before
\* every derived event of its correlate call, which follow in the order
\* correlate returned them.
C20_PipelineOrder ==
    /\ \A k \in 1..Len(pipeLog) :
          pipeLog[k] = PipeCallOrder(IF PipeCorrelated THEN Len(coRet.derived) ELSE 0)[k]
    /\ pipePc = "idle" /\ pipeLog # <<>>
          => pipeLog = PipeCallOrder(Len(coRet.derived))
    /\ \A i \in 1..coMade :
          LET mine == PipeOutOf(i)
              primaries == {k \in mine : pipeOut[k].primary}
              handled == i < pipeEvent.id \/ (i = pipeEvent.id /\ PipeEmitted)
          IN  /\ Cardinality(primaries) = (IF handled THEN 1 ELSE 0)
              /\ \A k \in mine : \A p \in primaries : p <= k
              /\ \A k \in mine : \A j \in 1..Len(pipeOut) :
                    (pipeOut[j].of # i) => (j < k <=> pipeOut[j].of < i)
    /\ PipeEmitted
          => LET first == CHOOSE k \in PipeOutOf(pipeEvent.id) : pipeOut[k].primary
             IN  /\ pipeOut[first].event = coRet.event
                 /\ pipeOut[first].event.confidence = pipeEvent.confidence
                 /\ \A k \in PipeOutOf(pipeEvent.id) :
                       k > first =>
                          /\ k - first <= Len(coRet.derived)
                          /\ pipeOut[k].event.event_type
                                = coRet.derived[k - first].event_type

\* the pipeline has finished a commit: the commit was emitted with the task
\* correlate linked it to, then the link event, then the cluster event
C20_Witness ==
    /\ pipePc = "idle"
    /\ Len(pipeLog) = 11
    /\ Len(pipeOut) = 5
    /\ pipeOut[3].primary
    /\ pipeOut[3].event.event_type = "git.commit"
    /\ pipeOut[3].event.task_id = "t1"
    /\ pipeOut[3].event.correlation_type = "file_overlap"
    /\ ~pipeOut[4].primary
    /\ pipeOut[4].event.event_type = "git.commit_linked_to_task"
    /\ ~pipeOut[5].primary
    /\ pipeOut[5].event.event_type = "workflow.activity_clustered"

\* ------------------------------------------------------------------ C21
\* the events the pipeline holds or has emitted
PipeSeen ==
    {pipeEvent} \cup {pipeDerived[k] : k \in 1..Len(pipeDerived)}
    \cup {pipeOut[k].event : k \in 1..Len(pipeOut)}

\* C21: at every point of the pipeline, the external_ref of every event, when
\* present, is the workspace_id and the task_id of that same event; for events
\* as make returns them and for commits on which correlate wrote the task id.
C21_ExternalRefIsWorkspaceAndTask ==
    \A e \in PipeSeen :
        e.external_ref # <<>> => e.external_ref = <<e.workspace_id, e.task_id>>

\* ------------------------------------------------------------------ C22
\* C22: every event that leaves the pipeline has a kind of the closed
\* taxonomy: the events the core mints have one, and an event whose kind is
\* outside the taxonomy is turned away at construction or at pipeline entry
\* instead of being scored, recorded and emitted.
C22_OnlyTaxonomyKindsLeave ==
    \A k \in 1..Len(pipeOut) : IsValid(pipeOut[k].event.event_type)

\* ------------------------------------------------------------------ C24
\* the allowed edges of the card's state machine
KanEdges ==
    {<<"INBOX", "PLANNED">>, <<"INBOX", "RUNNING">>,
     <<"PLANNED", "RUNNING">>, <<"PLANNED", "BLOCKED">>,
     <<"RUNNING", "BLOCKED">>, <<"RUNNING", "REVIEW">>, <<"RUNNING", "DONE">>,
     <<"BLOCKED", "RUNNING">>, <<"BLOCKED", "PLANNED">>,
     <<"REVIEW", "DONE">>, <<"REVIEW", "BLOCKED">>}

\* a step is a call of transition_to
KanCall == now' = now /\ kanRet'.op = "transition_to"

\* C24: transition_to changes the state only along an allowed edge: it then
\* returns True and appends exactly one history entry; for any other target,
\* every target from DONE included, it returns False and leaves state, history
\* and pending transitions unchanged.
C24_TransitionOnlyAlongAllowedEdges ==
    [][KanCall =>
        IF <<state, kanRet'.new_state>> \in KanEdges
        THEN /\ kanRet'.ret
             /\ state' = kanRet'.new_state
             /\ Len(state_history') = Len(state_history) + 1
             /\ SubSeq(state_history', 1, Len(state_history)) = state_history
             /\ state_history'[Len(state_history')].from_state = StateValue(state)
             /\ state_history'[Len(state_history')].to_state = StateValue(state')
        ELSE /\ ~kanRet'.ret
             /\ UNCHANGED <<state, state_history, pending_transitions>>]_vars

\* a card that went INBOX, RUNNING, DONE was asked to run again and refused
C24_Witness ==
    /\ kanRet.op = "transition_to"
    /\ kanRet.found = "DONE"
    /\ kanRet.new_state = "RUNNING"
    /\ ~kanRet.ret
    /\ state = "DONE"
    /\ Len(state_history) = 2
    /\ Len(pending_transitions) = 2

\* ------------------------------------------------------------------ C25
\* C25: after flush has ended an active burst, all burst state is cleared as
\* on the end of a burst in observe: no active burst id, no burst start time,
\* running token total and entry count zero.
C25_FlushClearsBurstState ==
    (cbRet.op = "flush" /\ cbRet.emitted # <<>>)
        => /\ active_burst_id = Null
           /\ burst_start_time = Null
           /\ burst_token_total = 0
           /\ burst_entry_count = 0

\* ------------------------------------------------------------------ C26
\* C26: derived events reach the emitter with the confidence they were minted
\* with: burst-start, burst-end and filesystem-batch events 0.4, commit-linked
\* events 1.0 / 0.8 / 0.5 by link strategy, activity-clustered events 0.7;
\* score_and_record in the pipeline does not change it.
C26_DerivedKeepMintedConfidence ==
    \A k \in 1..Len(pipeOut) :
        LET e == pipeOut[k].event
        IN  /\ e.event_type \in {"copilot.burst_start", "copilot.burst_end",
                                 "filesystem.batch_modified"}
                  => e.confidence = 4
            /\ e.event_type = "git.commit_linked_to_task"
                  => e.confidence = (CASE e.correlation_type = "task_match" -> 10
                                       [] e.correlation_type = "file_overlap" -> 8
                                       [] e.correlation_type = "time_proximity" -> 5)
            /\ e.event_type = "workflow.activity_clustered" => e.confidence = 7

\* ------------------------------------------------------------------ C27
\* the last correlator call was a correlate that returned a cluster event
\* (the windows are then as that call's eviction left them)
CoClusterFired ==
    /\ coRet.op = "correlate"
    /\ \E k \in 1..Len(coRet.derived) :
          coRet.derived[k].event_type = "workflow.activity_clustered"

\* C27: an activity-clustered event is emitted only when the trigger is from
\* a new source that brings the number of distinct sources to 3: in the
\* pipeline's order (record, then correlate), once 3 or more sources are in
\* the cluster horizon, a further event does not fire the cluster again.
C27_ClusterFiresOnceOnThirdSource ==
    CoClusterFired
        => /\ Cardinality({h.source : h \in CoHeld}) = 3
           /\ Cardinality({h \in CoHeld : h.source = coRet.event.source}) = 1

\* ------------------------------------------------------------------ C28
\* a planning-task event with a task id went through the pipeline before the
\* event being handled (it was recorded at a clock reading of 0 or later)
PipeTaskRecorded ==
    \E k \in 1..Len(pipeOut) :
        /\ pipeOut[k].primary
        /\ pipeOut[k].event.source = "antigravity"
        /\ pipeOut[k].event.task_id # None

\* C28: the task window is age-evicted only to its own horizon of 300 s: a
\* planning-task event recorded less than 300 s before a commit is still in
\* the task window, and the commit is linked, whatever events were correlated
\* in between.
C28_TaskWindowKeepsItsHorizon ==
    (/\ coRet.op = "correlate"
     /\ coRet.arg.event_type = "git.commit"
     /\ now < TASK_COMMIT_WINDOW
     /\ PipeTaskRecorded)
        => \E k \in 1..Len(coRet.derived) :
              coRet.derived[k].event_type = "git.commit_linked_to_task"

\* ------------------------------------------------------------------ C29
\* the observer thread is inside a detector, scorer or emitter call
ObsInCall == obsPc \in {"observe", "pipeline"}

\* the main thread is inside flush or the scorer and emitter calls after it
MainInCall == mainPc \in {"flush", "emit"}

\* C29: the shutdown flush of the completion burst detector never runs
\* together with an observe call, or with scorer or emitter use, of the
\* observer thread: detector, scorer and correlator have one caller at a time.
C29_FlushNeverBesideObserve == ~(ObsInCall /\ MainInCall)

\* ------------------------------------------------------------------ C30
\* no entry of window w is older than horizon at clock reading t
ScAllFresh(w, t, horizon) == \A i \in 1..Len(w) : t - w[i].t <= horizon

\* C30: every window is bounded: after every score_and_record call, none of
\* the scorer's three windows holds an entry older than its horizon
\* (filesystem 30 s, commits 120 s, tasks 300 s), whatever the mix of sources.
C30_NoStaleEntriesAfterScoreAndRecord ==
    [][ScCall({"score_and_record"})
        => /\ ScAllFresh(recent_fs', now', FS_PROXIMITY_SECS)
           /\ ScAllFresh(recent_git', now', GIT_PROXIMITY_SECS)
           /\ ScAllFresh(recent_tasks', now', TASK_PROXIMITY_SECS)]_vars

\* ------------------------------------------------------------------ C31
\* the entries of window w whose age is at most horizon
ScWithin(w, horizon) == SelectSeq(w, LAMBDA s : now - s.t <= horizon)

\* the proximity bonus of an event, counted over the given signals only
ScBonus(e, fs, git, tks) ==
    IF e.source = "copilot"
    THEN (IF fs # <<>> THEN 2 ELSE 0) + (IF git # <<>> THEN 2 ELSE 0)
         + (IF e.task_id = None /\ tks # <<>> THEN 1 ELSE 0)
    ELSE IF e.source = "filesystem"
    THEN (IF tks # <<>> THEN 2 ELSE 0) + (IF git # <<>> THEN 1 ELSE 0)
    ELSE IF e.source = "git"
    THEN (IF e.task_id # None /\ \E i \in 1..Len(tks) : tks[i].ref = e.task_id THEN 2
          ELSE IF tks # <<>> THEN 1 ELSE 0)
    ELSE 0

\* the score of an event when no signal is recorded
ScFloor(e) ==
    IF e.source = "copilot"
    THEN 2 + (IF e.burst_id # Null THEN 2 ELSE 0) + (IF e.task_id # None THEN 2 ELSE 0)
    ELSE IF e.source = "filesystem" THEN 4
    ELSE IF e.source = "git" THEN 6
    ELSE 9

\* C31: a recorded signal contributes a proximity bonus only while its age is
\* within its window's horizon (filesystem 30 s, commit 120 s, task 300 s):
\* every score is the score without signals plus the bonuses counted over the
\* signals whose age is at most the horizon, so an older signal never raises
\* a score and a signal whose age equals the horizon still counts.
C31_BonusOnlyWithinHorizon ==
    [][ ScCall({"score", "score_and_record"}) =>
          LET e == scRet'.arg IN
          scRet'.score =
              Min(10, ScFloor(e) + ScBonus(e, ScWithin(recent_fs, FS_PROXIMITY_SECS),
                                           ScWithin(recent_git, GIT_PROXIMITY_SECS),
                                           ScWithin(recent_tasks, TASK_PROXIMITY_SECS)))
      ]_vars

\* a completion scored 0.4 at clock 150: the commit signal recorded at 30 is
\* exactly 120 s old and counts, and no filesystem signal is left to count
C31_Witness ==
    /\ scRet.op = "score"
    /\ scRet.event.source = "copilot"
    /\ now = 150
    /\ recent_git # <<>>
    /\ \A i \in 1..Len(recent_git) : now - recent_git[i].t = GIT_PROXIMITY_SECS
    /\ recent_fs = <<>>
    /\ recent_tasks = <<>>
    /\ scRet.score = 4

\* ------------------------------------------------------------------ C32
\* the step on which the pipeline's correlate call returns
PipeCorrelateCall == pipePc = "correlate" /\ pipePc' # "correlate"

\* event b is event a but for the four fields _correlate_commit may write
CoOnlyLinkFields(a, b) ==
    b = [a EXCEPT !.task_id = b.task_id, !.task_title = b.task_title,
                  !.correlation_type = b.correlation_type,
                  !.correlated_events = b.correlated_events]

\* C32: correlate writes only on a trigger of kind git.commit, and only its
\* task id, task title, correlation type and linked-event list; no event's
\* confidence changes, a trigger of another kind is left as it was, the
\* events held in the windows (the trigger apart) are left as they were, and
\* every derived event has an id of its own, different from the trigger's and
\* from that of every held event.
C32_CorrelateWritesOnlyCommitLinkFields ==
    [][ PipeCorrelateCall =>
          /\ CoOnlyLinkFields(pipeEvent, pipeEvent')
          /\ pipeEvent'.confidence = pipeEvent.confidence
          /\ pipeEvent.event_type # "git.commit" => pipeEvent' = pipeEvent
          /\ \A i \in 1..Len(tasks') : \E j \in 1..Len(tasks) : tasks'[i] = tasks[j]
          /\ \A h \in CoHeld' : h.id # pipeEvent.id => h \in CoHeld
          /\ \A k \in 1..Len(pipeDerived') :
                /\ pipeDerived'[k].id # pipeEvent.id
                /\ \A h \in CoHeld : pipeDerived'[k].id # h.id
                /\ \A j \in 1..Len(pipeDerived') : j # k => pipeDerived'[j].id # pipeDerived'[k].id
      ]_vars

\* correlate has returned for a commit that came with the sha as task id: the
\* commit now carries the task's id and title and the scorer's confidence,
\* and a link event and a cluster event wait to be emitted
C32_Witness ==
    /\ pipePc = "emit"
    /\ pipeEvent.event_type = "git.commit"
    /\ pipeEvent.external_ref = <<"w1", "sha1">>
    /\ pipeEvent.task_id = "t1"
    /\ pipeEvent.task_title = "Fix bug"
    /\ pipeEvent.correlation_type = "time_proximity"
    /\ pipeEvent.confidence = scRet.score
    /\ Len(pipeDerived) = 2

\* ------------------------------------------------------------------ C33
\* a step that is an observe call of the completion burst detector
CBObserveCall == \E e \in CBEvents : CBObserve(e)

\* the burst-end events in what a call returned
CBEndsIn(out) == {i \in 1..Len(out) : out[i].event_type = "copilot.burst_end"}

\* C33: the burst id, start time and running totals of an active burst are
\* set by the observe call that starts it, the totals are set again by every
\* observe call after which the trigger condition holds, and nothing else
\* changes them while the burst is active; the burst-end event of observe
\* carries that burst id, those totals (not those of the window as it is now)
\* and duration = now - burst start time, and the call leaves burst id and
\* start time unset and both totals 0.
C33_BurstEndCarriesLastKnownTotals ==
    [][ /\ CBObserveCall =>
            LET out == cbRet'.emitted IN
            /\ (~IsInBurst /\ IsInBurst') =>
                  /\ active_burst_id' = out[1].burst_id
                  /\ active_burst_id' = cbMinted'
                  /\ cbMinted' = cbMinted + 1
                  /\ burst_start_time' = now
            /\ IsInBurst' =>
                  /\ burst_token_total' = WindowTokens(window')
                  /\ burst_entry_count' = Len(window')
            /\ CBEndsIn(out) # {} =>
                  /\ out[1].burst_id = active_burst_id
                  /\ out[1].burst_token_total = burst_token_total
                  /\ out[1].burst_entry_count = burst_entry_count
                  /\ out[1].burst_duration_secs = now - burst_start_time
                  /\ active_burst_id' = Null
                  /\ burst_start_time' = Null
                  /\ burst_token_total' = 0
                  /\ burst_entry_count' = 0
        /\ (IsInBurst /\ IsInBurst') =>
              /\ active_burst_id' = active_burst_id
              /\ burst_start_time' = burst_start_time
              /\ ~CBObserveCall =>
                    /\ burst_token_total' = burst_token_total
                    /\ burst_entry_count' = burst_entry_count
      ]_vars

\* observe has ended a burst of two entries and 1000 tokens 121 s after its
\* start: the end event reports them while the window holds only the new
\* completion, which has no token counts
C33_Witness ==
    /\ cbRet.op = "observe"
    /\ CBEndsIn(cbRet.emitted) = {1}
    /\ cbRet.emitted[1].burst_entry_count = 2
    /\ cbRet.emitted[1].burst_token_total = 1000
    /\ cbRet.emitted[1].burst_duration_secs = 121
    /\ Len(window) = 1
    /\ WindowTokens(window) = 0
    /\ ~IsInBurst

\* ------------------------------------------------------------------ C34
\* a burst event of the given kind and burst id has been passed on for emission
ShutPassedOn(event_type, id) ==
    \E i \in 1..Len(shutOut) :
        /\ "event_type" \in DOMAIN shutOut[i].event
        /\ shutOut[i].event.event_type = event_type
        /\ shutOut[i].event.burst_id = id

\* C34: every burst-start is eventually followed by a burst-end carrying the
\* same burst id, when the handler goes on observing completions and flush is
\* called at shutdown: no burst stays active forever.
C34_EveryBurstEnds ==
    \A id \in 1..CBMaxBursts :
        ShutPassedOn("copilot.burst_start", id) ~> ShutPassedOn("copilot.burst_end", id)

\* ------------------------------------------------------------------ C35
\* a token count as the claim reads it: 0 when the log entry has none
CBCountOf(x) == IF x = Null THEN 0 ELSE x

\* the tasks of the window whose file list shares a path with the commit's
CoOverlapping(commit) ==
    {i \in 1..Len(tasks) : (commit.files_changed \cap tasks[i].ev.files_changed) # {}}

\* C35: absent optional fields are read as defaults.  A completion without
\* prompt or completion token count is observed as one more window entry that
\* adds 0 tokens for each absent count; a commit without file list, and a task
\* event without file list, overlap with nothing, so the commit is linked by
\* the next strategy (here the most recent task, by time proximity).
C35_AbsentFieldsAreDefaults ==
    [][ /\ (\E e \in CBOptEvents : CBObserve(e)) =>
              LET e == cbRet'.event
                  last == window'[Len(window')]
              IN  /\ Len(window') = Len(window) + 1
                  /\ last.tp = CBCountOf(e.tokens_prompt)
                  /\ last.tc = CBCountOf(e.tokens_completion)
                  /\ WindowTokens(window') = WindowTokens(window)
                        + CBCountOf(e.tokens_prompt) + CBCountOf(e.tokens_completion)
        /\ ((\E c \in CoOptCommits : CoCorrelate(c)) /\ tasks # <<>>) =>
              LET commit == coRet'.arg
                  hits == CoOverlapping(commit)
                  at == IF hits # {} THEN CoLast(hits) ELSE Len(tasks)
              IN  /\ Len(coRet'.derived) = 1
                  /\ coRet'.derived[1].event_type = "git.commit_linked_to_task"
                  /\ coRet'.derived[1].correlation_type =
                        (IF hits # {} THEN "file_overlap" ELSE "time_proximity")
                  /\ coRet'.event.correlated_events = <<tasks[at].ev.id>>
                  /\ (commit.files_changed = {} \/ tasks[at].ev.files_changed = {})
                        => coRet'.derived[1].correlation_type = "time_proximity"
      ]_vars

\* five completions without any token count have started a burst of 0 tokens,
\* and a commit without file list was linked by time proximity to the most
\* recent task while an earlier task with a file list is held
C35_Witness ==
    /\ cbRet.op = "observe"
    /\ Len(cbRet.emitted) = 1
    /\ cbRet.emitted[1].event_type = "copilot.burst_start"
    /\ cbRet.emitted[1].burst_token_total = 0
    /\ cbRet.emitted[1].burst_entry_count = CB_count_threshold
    /\ coRet.op = "correlate"
    /\ coRet.arg.files_changed = {}
    /\ Len(tasks) = 2
    /\ tasks[1].ev.files_changed # {}
    /\ tasks[2].ev.files_changed = {}
    /\ Len(coRet.derived) = 1
    /\ coRet.derived[1].correlation_type = "time_proximity"
    /\ coRet.event.correlated_events = <<tasks[2].ev.id>>

\* ------------------------------------------------------------------ C36
\* a step that is an emit_event call for the card in the store
KanEmitCall(event_type) ==
    /\ Len(execution_events') = Len(execution_events) + 1
    /\ execution_events'[Len(execution_events')].task_id = KanCardId
    /\ execution_events'[Len(execution_events')].event_type = event_type

\* C36: for the card in the store, emit_event with the card's id leaves the
\* card RUNNING after a started event, in REVIEW after a completed event and
\* BLOCKED after a failed event, whatever state the card was in; a progress
\* event leaves the state as it was.
C36_EventSetsCardState ==
    [][ /\ KanEmitCall("started") => state' = "RUNNING"
        /\ KanEmitCall("completed") => state' = "REVIEW"
        /\ KanEmitCall("failed") => state' = "BLOCKED"
        /\ KanEmitCall("progress") => state' = state
      ]_vars

\* ------------------------------------------------------------------ C37
\* every entry of the window is older than window_secs
CBAllExpired == \A i \in 1..Len(window) : now - window[i].t > CB_window_secs

\* the completion meets the trigger condition on its own
CBTriggersAlone(e) ==
    CBTrigger(CBCountOf(e.tokens_prompt) + CBCountOf(e.tokens_completion), 1)

C38_StartsAndEndsAlternate ==
    /\ \A i \in 1..Len(cbOut) :
          IF i % 2 = 1
          THEN cbOut[i].event_type = "copilot.burst_start"
          ELSE /\ cbOut[i].event_type = "copilot.burst_end"
               /\ cbOut[i].burst_id = cbOut[i - 1].burst_id
    /\ \A i, j \in 1..Len(cbOut) :
          (i < j /\ cbOut[i].event_type = "copilot.burst_start"
                 /\ cbOut[j].event_type = "copilot.burst_start")
              => cbOut[i].burst_id # cbOut[j].burst_id

\* two bursts have started and ended, the second one by flush at a later
\* clock reading than its start
C38_Witness ==
    /\ Len(cbOut) = 4
    /\ cbRet.op = "flush"
    /\ cbRet.emitted # <<>>
    /\ cbRet.emitted[1].burst_duration_secs > 0
    /\ cbOut[4].burst_id = 2
    /\ burst_start_time = Null

\* ------------------------------------------------------------------ C39
\* C39: flush leaves the window as it is.  When the call before an observe
\* was a flush that ended a burst, and the window entries not yet expired
\* together with the observed completion meet the trigger condition, the
\* observe call starts a burst with a new burst id, whose totals count the
\* entries left from the flushed burst.
C39_FlushKeepsWindow ==
    [][ /\ CBFlushCall => window' = window
        /\ (CBObserveCall /\ cbRet.op = "flush" /\ cbRet.emitted # <<>>) =>
              LET kept == CBFresh(now)
                  e == cbRet'.event
                  tokens == WindowTokens(kept) + CBCountOf(e.tokens_prompt)
                               + CBCountOf(e.tokens_completion)
                  count == Len(kept) + 1
              IN  CBTrigger(tokens, count) =>
                     /\ Len(cbRet'.emitted) = 1
                     /\ cbRet'.emitted[1].event_type = "copilot.burst_start"
                     /\ cbRet'.emitted[1].burst_id # cbRet.emitted[1].burst_id
                     /\ cbRet'.emitted[1].burst_id = active_burst_id'
                     /\ cbRet'.emitted[1].burst_token_total = tokens
                     /\ cbRet'.emitted[1].burst_entry_count = count
                     /\ burst_token_total' = tokens
                     /\ burst_entry_count' = count
      ]_vars

\* at clock 0 a burst of one 500-token completion was flushed and the next
\* completion started burst 2 with two entries and 1000 tokens
C39_Witness ==
    /\ now = 0
    /\ Len(cbOut) = 3
    /\ cbRet.op = "observe"
    /\ Len(cbRet.emitted) = 1
    /\ cbRet.emitted[1].event_type = "copilot.burst_start"
    /\ cbRet.emitted[1].burst_id = 2
    /\ cbRet.emitted[1].burst_entry_count = 2
    /\ cbRet.emitted[1].burst_token_total = 1000
    /\ Len(window) = 2

\* ------------------------------------------------------------------ C40
\* C40: the payload the retry worker removes from the retry queue after a
\* successful POST is the payload it read and delivered, whatever emit calls
\* append to the bounded queue between the worker's read and its popleft: no
\* payload leaves the queue by the worker's hand without having been delivered.
C40_WorkerRemovesWhatItDelivered ==
    [][(wkPc = "pop" /\ wkPc' = "read") =>
          /\ Head(retry_queue) = wkPayload
          /\ Head(retry_queue) \in delivered]_vars

====
